---- MODULE Spec2Model ----
(***************************************************************************)
(* NyanCAD netlisting engine (python/nyancad/nyancad/netlist.py).          *)
(*                                                                         *)
(* One schematic level is netlisted by populate_from_nyancad: port_index   *)
(* builds the two spatial indices, netlist flood-fills wire_index into     *)
(* named nets and inverts them into device -> port -> net, and every       *)
(* netlisted device is then turned into one circuit element.               *)
(*                                                                         *)
(* Python dicts are insertion ordered and dict.popitem() removes the key   *)
(* inserted last, so every dict whose order the code can observe is an     *)
(* ordered dict here: a sequence of <<key, value>> pairs.                  *)
(***************************************************************************)
EXTENDS Integers, Sequences, FiniteSets, TLC

\* Python's None
None == "None"

\* a document without a transform field
NoTransform == << >>

-----------------------------------------------------------------------------
(* Ordered dicts *)

\* k in d
Has(d, k) == \E i \in 1..Len(d) : d[i][1] = k

\* d[k]
Get(d, k) == d[CHOOSE i \in 1..Len(d) : d[i][1] = k][2]

\* d[k] = v : an existing key keeps its position
Put(d, k, v) ==
    IF Has(d, k)
    THEN [i \in 1..Len(d) |-> IF d[i][1] = k THEN <<k, v>> ELSE d[i]]
    ELSE Append(d, <<k, v>>)

\* d.pop(k), the remaining dict
Del(d, k) == SelectSeq(d, LAMBDA e : e[1] # k)

\* d.setdefault(k, []).append(v)
AppendTo(d, k, v) == Put(d, k, IF Has(d, k) THEN Append(Get(d, k), v) ELSE <<v>>)

\* d.setdefault(k, []).extend(vs)
ExtendTo(d, k, vs) == Put(d, k, IF Has(d, k) THEN Get(d, k) \o vs ELSE vs)

-----------------------------------------------------------------------------
(* Geometry resolver *)

\* model_key: the bare id with the "models:" prefix, None for None
model_key(bare) == IF bare = None THEN None ELSE "models:" \o bare

\* fault: the two-terminal template with P in the left column
twoport_shape_PLeft == << <<0, 0, "P">>, <<1, 2, "N">> >>

\* shape_ports of [" P ", "   ", " N "]
twoport_shape == << <<1, 0, "P">>, <<1, 2, "N">> >>

\* shape_ports of [" D ", "GB ", " S "]
mosfet_shape == << <<1, 0, "D">>, <<0, 1, "G">>, <<1, 1, "B">>, <<1, 2, "S">> >>

\* shape_ports of [" C ", "B  ", " E "]
bjt_shape == << <<1, 0, "C">>, <<0, 1, "B">>, <<1, 2, "E">> >>

Max2(a, b) == IF a >= b THEN a ELSE b

\* max(max(x, y) for x, y, _ in shape) of a non-empty shape
ShapeMax(shape) ==
    CHOOSE m \in {Max2(shape[i][1], shape[i][2]) : i \in 1..Len(shape)} :
        \A i \in 1..Len(shape) : Max2(shape[i][1], shape[i][2]) <= m

\* Python's round(n / 2): the nearest integer, a tie goes to the even one
PyRoundHalf(n) ==
    IF n % 2 = 0 THEN n \div 2
    ELSE LET k == (n - 1) \div 2 IN IF k % 2 = 0 THEN k ELSE k + 1

\* fault: rotate centred on width/2 instead of width/2 - 0.5
RotatePoint_MidOff(px, py, tr, devx, devy, width) ==
    LET m2  == width
        x2  == 2 * px - m2
        y2  == 2 * py - m2
        nx2 == tr[1] * x2 + tr[3] * y2 + 2 * tr[5]
        ny2 == tr[2] * x2 + tr[4] * y2 + 2 * tr[6]
    IN  << PyRoundHalf(2 * devx + nx2 + m2), PyRoundHalf(2 * devy + ny2 + m2) >>

\* One port of rotate: the local coordinate is centred on mid = width/2 - 0.5,
\* mapped by (a, b, c, d) plus (e, f), moved back and rounded.  Coordinates
\* are doubled so that the half-integer mid of an even width stays integral.
RotatePoint(px, py, tr, devx, devy, width) ==
    LET m2  == width - 1
        x2  == 2 * px - m2
        y2  == 2 * py - m2
        nx2 == tr[1] * x2 + tr[3] * y2 + 2 * tr[5]
        ny2 == tr[2] * x2 + tr[4] * y2 + 2 * tr[6]
    IN  << PyRoundHalf(2 * devx + nx2 + m2), PyRoundHalf(2 * devy + ny2 + m2) >>

RECURSIVE RotateFrom(_, _, _, _, _, _, _)
RotateFrom(shape, i, tr, devx, devy, width, res) ==
    IF i > Len(shape) THEN res
    ELSE RotateFrom(shape, i + 1, tr, devx, devy, width,
             Put(res, RotatePoint(shape[i][1], shape[i][2], tr, devx, devy, width),
                 shape[i][3]))

\* rotate raises ValueError on an empty shape: max() of an empty sequence
rotate_raises(shape) == shape = << >>

\* rotate: the ordered dict (x, y) -> port name of a non-empty shape
rotate(shape, tr, devx, devy) ==
    RotateFrom(shape, 1, tr, devx, devy, ShapeMax(shape) + 1, << >>)

port_perimeter(ports) ==
    << 1 + Max2(Len(ports.left), Len(ports.right)),
       1 + Max2(Len(ports.top), Len(ports.bottom)) >>

\* fault: the left edge is listed before the bottom edge
port_locations_LeftFirst(ports) ==
    LET width  == port_perimeter(ports)[1]
        height == port_perimeter(ports)[2]
    IN  [i \in 1..Len(ports.top)    |-> <<i, 0, ports.top[i]>>]
     \o [i \in 1..Len(ports.left)   |-> <<0, i, ports.left[i]>>]
     \o [i \in 1..Len(ports.bottom) |-> <<i, height + 1, ports.bottom[i]>>]
     \o [i \in 1..Len(ports.right)  |-> <<width + 1, i, ports.right[i]>>]

\* port_locations: (x, y, port name) along the top, bottom, left and right edge
port_locations(ports) ==
    LET width  == port_perimeter(ports)[1]
        height == port_perimeter(ports)[2]
    IN  [i \in 1..Len(ports.top)    |-> <<i, 0, ports.top[i]>>]
     \o [i \in 1..Len(ports.bottom) |-> <<i, height + 1, ports.bottom[i]>>]
     \o [i \in 1..Len(ports.left)   |-> <<0, i, ports.left[i]>>]
     \o [i \in 1..Len(ports.right)  |-> <<width + 1, i, ports.right[i]>>]

TwoTerminal == {"resistor", "capacitor", "inductor", "vsource", "isource", "diode"}

\* doc.get('transform', [1, 0, 0, 1, 0, 0])
TransformOf(doc) == IF doc.transform = NoTransform THEN <<1, 0, 0, 1, 0, 0>> ELSE doc.transform

\* fault: getports looks a dangling model reference up, a KeyError
getports_raises_KeyError(doc, models) ==
    /\ doc.type \notin {"wire", "text", "port", "nmos", "pmos", "npn", "pnp"} \cup TwoTerminal
    /\ model_key(doc.model) \notin DOMAIN models

\* getports raises only where rotate does; models is a function on model keys
getports_raises(doc, models) ==
    /\ doc.type \notin {"wire", "text", "port", "nmos", "pmos", "npn", "pnp"} \cup TwoTerminal
    /\ model_key(doc.model) # None
    /\ model_key(doc.model) \in DOMAIN models
    /\ rotate_raises(port_locations(models[model_key(doc.model)].ports))

\* getports: the ordered dict (x, y) -> port name (None on a wire's ends)
getports(doc, models) ==
    LET tr == TransformOf(doc) IN
    CASE doc.type = "wire" ->
            Put(<< <<(<<doc.x, doc.y>>), None>> >>, <<doc.x + doc.rx, doc.y + doc.ry>>, None)
      [] doc.type = "text" -> << >>
      [] doc.type = "port" -> << <<(<<doc.x, doc.y>>), doc.name>> >>
      [] doc.type \in {"nmos", "pmos"} -> rotate(mosfet_shape, tr, doc.x, doc.y)
      [] doc.type \in {"npn", "pnp"} -> rotate(bjt_shape, tr, doc.x, doc.y)
      [] doc.type \in TwoTerminal -> rotate(twoport_shape, tr, doc.x, doc.y)
      [] OTHER ->
            LET model_id == model_key(doc.model) IN
            IF model_id # None /\ model_id \in DOMAIN models
            THEN rotate(port_locations(models[model_id].ports), tr, doc.x, doc.y)
            ELSE << >>

-----------------------------------------------------------------------------
(* Inputs: one schematic level and the model library *)

\* Largest number of documents in the level
MaxDocs == 4

\* Largest number of netlist runs on the same documents
MaxRuns == 2

ROT0   == <<1, 0, 0, 1, 0, 0>>
ROT90  == <<0, 1, -1, 0, 0, 0>>
ROT180 == <<-1, 0, 0, -1, 0, 0>>
ROT270 == <<0, -1, 1, 0, 0, 0>>

Doc(id, type, x, y, rx, ry, name, transform, model) ==
    [id |-> id, type |-> type, x |-> x, y |-> y, rx |-> rx, ry |-> ry,
     name |-> name, transform |-> transform, model |-> model]

W1    == Doc("top:W1", "wire", 0, 0, 2, 0, None, NoTransform, None)
W2    == Doc("top:W2", "wire", 1, 0, 1, 0, "A", NoTransform, None)
R1    == Doc("top:R1", "resistor", 0, 0, 0, 0, None, ROT0, None)
R3    == Doc("top:R3", "resistor", 0, -1, 0, 0, None, ROT90, None)
PVIN  == Doc("top:P1", "port", 2, 0, 0, 0, "VIN", NoTransform, None)
PVIN2 == Doc("top:P2", "port", 0, 0, 0, 0, "VIN", NoTransform, None)
PNET0 == Doc("top:P3", "port", 2, 0, 0, 0, "net0", NoTransform, None)
\* a port whose name is null
PNULL == Doc("top:P4", "port", 0, 0, 0, 0, None, NoTransform, None)
X1    == Doc("top:X1", "ckt", -2, -1, 0, 0, None, ROT0, "amp")
X2    == Doc("top:X2", "ckt", 0, 0, 0, 0, None, ROT0, "missing")
X3    == Doc("top:X3", "ckt", 0, 0, 0, 0, None, ROT0, None)

Pool == {W1, W2, R1, R3, PVIN, PVIN2, PNET0, PNULL, X1}

\* The documents of the levels with dangling model references
UnresolvedPool == {X2, X3, X1, R1, R3, W2, PVIN}

\* The model library: one schematic model (no templates) with two ports
Models ==
    "models:amp" :> [name |-> "amp",
                     ports |-> [top |-> << >>, bottom |-> << >>,
                                left |-> <<"IN">>, right |-> <<"OUT">>],
                     templates |-> << >>]

\* Every ordering of at most n distinct documents of a pool: the level as
\* a dict in insertion order
Levels(pool, n) ==
    UNION {{s \in [1..k -> pool] : \A i, j \in 1..k : s[i] = s[j] => i = j} : k \in 0..n}

\* docs[id]
DocOf(ds, id) == ds[CHOOSE i \in 1..Len(ds) : ds[i].id = id]

-----------------------------------------------------------------------------
(* Net extraction *)

VARIABLES
    docs,          \* the level: documents in dict order
    pc,            \* position of the netlisting pass
    device_index,  \* (x, y) -> list of <<port name, device>>
    wire_index,    \* (x, y) -> list of wire-like entities
    nl,            \* net name -> device id -> list of port names
    netnum,        \* number of synthesized net names
    netname,       \* name of the net being traversed
    net,           \* the traversal queue
    netdevs,       \* device id -> list of port names on the net being traversed
    inl,           \* device id -> port name -> net name
    it,            \* number of devices populate_from_nyancad has handled
    used_models,   \* model keys instantiated by emitted devices
    elements,      \* the elements added to the circuit
    raised,        \* an exception left populate_from_nyancad
    visited,       \* history: the coordinates whose bucket joined the net being traversed
    trav,          \* history: the entities taken from the queue of the net being traversed
    floods,        \* history: the nets traversed so far, [locs, trav, name]
    runs,          \* number of the netlisting pass on these documents
    prev,          \* history: the partition of (device, port) pairs of the previous pass
    gdoc,          \* the document handed to getports on its own
    gports,        \* what getports returned for it
    schem,         \* the full schematic: group name -> documents in dict order
    cpc,           \* position of NyanCircuit.__init__ and download_includes
    todo,          \* used_models not yet visited by the loop of NyanCircuit.__init__
    subcircuits,   \* the sub-circuits handed to self.subcircuit, in call order
    parsed,        \* the template codes copied structurally into the circuit
    raw_spice,     \* the template codes appended to raw_spice
    spice_log,     \* history: [code, outcome] of the add_spice_code calls, in order
    pending,       \* _pending_downloads: list of [url, dest, entry]
    dli,           \* number of pending entries download_includes has handled
    cache,         \* the paths that exist in the cache directory
    downloaded,    \* history: [url, outcome] of the download_file calls, in order
    store,         \* the document store: group name -> documents
    fpc,           \* position of get_all_schem_docs
    fschem,        \* the full schematic get_all_schem_docs is assembling
    queue,         \* its queue of documents to inspect
    seen_models,   \* its seen-set of model keys
    fetched,       \* history: the names handed to get_docs, in call order
    passes,        \* the concurrent emission passes: [pc, incs, pending, i] each
    writes,        \* history: [pass, path] of the writes into the cache, in order
    tmpl,          \* templates['spice'] of the model of the device handed to the emitter
    simname,       \* the sim argument the device is emitted with
    corner         \* the corner argument the device is emitted with

\* the variables of NyanCircuit and download_includes
cvars == <<schem, cpc, todo, subcircuits, parsed, raw_spice, spice_log, pending,
           dli, cache, downloaded>>

\* the variables of get_all_schem_docs
fvars == <<store, fpc, fschem, queue, seen_models, fetched>>

\* the variables of the concurrent emission passes
pvars == <<passes, writes>>

\* the variables of the emission of one device under a template list
tvars == <<tmpl, simname, corner>>

\* the variables of one netlisting pass
nvars == <<docs, pc, device_index, wire_index, nl, netnum, netname, net, netdevs,
           inl, it, visited, trav, floods, runs, prev, gdoc, gports>>

vars == <<nvars, used_models, elements, raised, cvars, fvars, pvars, tvars>>

\* the dummy net port_index adds at a device terminal
Stub(x, y) == Doc(None, "wire", x, y, 0, 0, None, NoTransform, None)

\* fault: port_index puts the device itself where the dummy net belongs
IndexPort_DeviceAsNet(idx, doc, loc, p) ==
    IF doc.type \in {"wire", "port"}
    THEN [idx EXCEPT !.wire = AppendTo(@, loc, doc)]
    ELSE [device |-> AppendTo(idx.device, loc, <<p, doc>>),
          wire   |-> AppendTo(idx.wire, loc, doc)]

\* fault: port_index without the dummy net at a device terminal
IndexPort_NoStub(idx, doc, loc, p) ==
    IF doc.type \in {"wire", "port"}
    THEN [idx EXCEPT !.wire = AppendTo(@, loc, doc)]
    ELSE [idx EXCEPT !.device = AppendTo(@, loc, <<p, doc>>)]

\* port_index, one (x, y), p of one document
IndexPort(idx, doc, loc, p) ==
    IF doc.type \in {"wire", "port"}
    THEN [idx EXCEPT !.wire = AppendTo(@, loc, doc)]
    ELSE [device |-> AppendTo(idx.device, loc, <<p, doc>>),
          wire   |-> AppendTo(idx.wire, loc, Stub(loc[1], loc[2]))]

RECURSIVE IndexPorts(_, _, _, _)
IndexPorts(idx, doc, ports, i) ==
    IF i > Len(ports) THEN idx
    ELSE IndexPorts(IndexPort(idx, doc, ports[i][1], ports[i][2]), doc, ports, i + 1)

RECURSIVE IndexDocs(_, _, _, _)
IndexDocs(idx, ds, models, i) ==
    IF i > Len(ds) THEN idx
    ELSE IndexDocs(IndexPorts(idx, ds[i], getports(ds[i], models), 1), ds, models, i + 1)

\* port_index: [device |-> device_index, wire |-> wire_index]
port_index(ds, models) == IndexDocs([device |-> << >>, wire |-> << >>], ds, models, 1)

\* one end of a wire in the flood fill of netlist: the bucket at ploc joins
\* the queue and leaves wire_index, the device ports at ploc join netdevs
RECURSIVE AddDevs(_, _, _)
AddDevs(nd, entries, i) ==
    IF i > Len(entries) THEN nd
    ELSE AddDevs(AppendTo(nd, entries[i][2].id, entries[i][1]), entries, i + 1)

\* fault: the bucket at the wire end leaves wire_index without joining the queue
WireEnd_NoExtend(st, ploc, dindex) ==
    LET st1 == IF Has(st.wire, ploc) THEN [st EXCEPT !.wire = Del(@, ploc)] ELSE st
    IN  IF Has(dindex, ploc)
        THEN [st1 EXCEPT !.netdevs = AddDevs(@, Get(dindex, ploc), 1)]
        ELSE st1

\* fault: the device ports at a wire end are recorded only when its bucket
\* was still in wire_index
WireEnd_DevsWithBucket(st, ploc, dindex) ==
    IF Has(st.wire, ploc)
    THEN LET st1 == [st EXCEPT !.net = @ \o Get(st.wire, ploc), !.wire = Del(@, ploc)]
         IN  IF Has(dindex, ploc)
             THEN [st1 EXCEPT !.netdevs = AddDevs(@, Get(dindex, ploc), 1)]
             ELSE st1
    ELSE st

\* fault: the bucket at the wire end joins the queue and stays in wire_index
\* (wire_index[ploc] instead of wire_index.pop(ploc))
WireEnd_NoPop(st, ploc, dindex) ==
    LET st1 == IF Has(st.wire, ploc)
               THEN [st EXCEPT !.net = @ \o Get(st.wire, ploc)]
               ELSE st
    IN  IF Has(dindex, ploc)
        THEN [st1 EXCEPT !.netdevs = AddDevs(@, Get(dindex, ploc), 1)]
        ELSE st1

WireEnd(st, ploc, dindex) ==
    LET st1 == IF Has(st.wire, ploc)
               THEN [st EXCEPT !.net = @ \o Get(st.wire, ploc), !.wire = Del(@, ploc)]
               ELSE st
    IN  IF Has(dindex, ploc)
        THEN [st1 EXCEPT !.netdevs = AddDevs(@, Get(dindex, ploc), 1)]
        ELSE st1

RECURSIVE WireEnds(_, _, _, _)
WireEnds(st, plocs, dindex, i) ==
    IF i > Len(plocs) THEN st
    ELSE WireEnds(WireEnd(st, plocs[i][1], dindex), plocs, dindex, i + 1)

\* the name a wire leaves on the net: its own only if the net has none yet
WireName(cur, doc) == IF cur = None /\ doc.name # None THEN doc.name ELSE cur

\* fault: a port names the net only while it has no name
PortName_FirstWins(cur, doc) == IF cur = None /\ doc.name # None THEN doc.name ELSE cur

\* the name a port leaves on the net
PortName(cur, doc) == doc.name

\* nl.setdefault(netname, {}).setdefault(k, []).extend(v) for k, v in netdevs
RECURSIVE MergeNet(_, _, _, _)
MergeNet(n, name, nd, i) ==
    IF i > Len(nd) THEN n
    ELSE MergeNet(Put(n, name, ExtendTo(IF Has(n, name) THEN Get(n, name) ELSE << >>,
                                        nd[i][1], nd[i][2])),
                  name, nd, i + 1)

\* f"net{netnum}"
SynthName(n) == "net" \o ToString(n)

\* inl.setdefault(dev, {})[port] = net for every port of every device of every net
RECURSIVE InvertPorts(_, _, _, _, _)
InvertPorts(res, netn, dev, pts, i) ==
    IF i > Len(pts) THEN res
    ELSE InvertPorts(Put(res, dev, Put(IF Has(res, dev) THEN Get(res, dev) ELSE << >>,
                                       pts[i], netn)),
                     netn, dev, pts, i + 1)

RECURSIVE InvertDevs(_, _, _, _)
InvertDevs(res, netn, devs, i) ==
    IF i > Len(devs) THEN res
    ELSE InvertDevs(InvertPorts(res, netn, devs[i][1], devs[i][2], 1), netn, devs, i + 1)

RECURSIVE InvertNets(_, _, _)
InvertNets(res, n, i) ==
    IF i > Len(n) THEN res
    ELSE InvertNets(InvertDevs(res, n[i][1], n[i][2], 1), n, i + 1)

-----------------------------------------------------------------------------
(* Element emission *)

\* the sim argument of populate_from_nyancad
Sim == "NgSpice"

\* str.lower() on the simulator and template names in use
Lower(str) ==
    CASE str = "NgSpice" -> "ngspice"
      [] str = "NGSPICE" -> "ngspice"
      [] str = "Xyce"    -> "xyce"
      [] OTHER           -> str

\* dev_id.replace(':', '_') on the document ids in use
ColonToUnderscore(id) ==
    CASE id = "top:R1" -> "top_R1"
      [] id = "top:R3" -> "top_R3"
      [] id = "top:X1" -> "top_X1"
      [] id = "top:X2" -> "top_X2"
      [] id = "top:X3" -> "top_X3"
      [] OTHER         -> id

\* fault: the first template is selected whatever the simulator
select_template_FirstOnly(templates, sim) ==
    IF templates = << >> THEN << >> ELSE << templates[1] >>

\* _select_template: << >> for None, else the one selected template
select_template(templates, sim) ==
    IF templates = << >> THEN << >>
    ELSE IF \E i \in 1..Len(templates) : Lower(templates[i].name) = Lower(sim)
         THEN << templates[CHOOSE i \in 1..Len(templates) :
                     /\ Lower(templates[i].name) = Lower(sim)
                     /\ \A j \in 1..(i - 1) : Lower(templates[j].name) # Lower(sim)] >>
         ELSE << templates[1] >>

\* the InSpice element prefix of a primitive type
Prefix(type) ==
    CASE type = "resistor"  -> "R"
      [] type = "capacitor" -> "C"
      [] type = "inductor"  -> "L"
      [] type = "diode"     -> "D"
      [] type = "vsource"   -> "V"
      [] type = "isource"   -> "I"
      [] type \in {"nmos", "pmos"} -> "M"
      [] type \in {"npn", "pnp"}   -> "Q"
      [] OTHER -> "X"

Primitive == TwoTerminal \cup {"nmos", "pmos", "npn", "pnp"}

\* the port names _add_nyancad_element looks up with p(...), in node order
NeededPorts(dev, models) ==
    CASE dev.type \in TwoTerminal      -> <<"P", "N">>
      [] dev.type \in {"nmos", "pmos"} -> <<"D", "G", "S">>
      [] dev.type \in {"npn", "pnp"}   -> <<"C", "B", "E">>
      [] OTHER ->
            IF model_key(dev.model) \in DOMAIN models
            THEN LET locs == port_locations(models[model_key(dev.model)].ports)
                 IN  [i \in 1..Len(locs) |-> locs[i][3]]
            ELSE << >>

\* _add_nyancad_element: [raises, used, elems], the KeyError of p(port_name),
\* the model key added to used_models and the elements added to the circuit
add_nyancad_element(dev_id, dev, ports, models, sim) ==
    LET name       == IF dev.name # None /\ dev.name # ""
                      THEN dev.name ELSE ColonToUnderscore(dev_id)
        model_id   == model_key(dev.model)
        resolved   == model_id # None /\ model_id \in DOMAIN models
        model_name == IF resolved THEN models[model_id].name ELSE None
        selected   == IF resolved THEN select_template(models[model_id].templates, sim)
                      ELSE << >>
        model_use_x == selected # << >> /\ selected[1].usex
        needed     == NeededPorts(dev, models)
        nodes      == [i \in 1..Len(needed) |-> Get(ports, needed[i])]
                      \o (IF dev.type \in {"nmos", "pmos"}
                          THEN << IF Has(ports, "B") THEN Get(ports, "B") ELSE "0" >>
                          ELSE << >>)
        kind       == IF model_use_x THEN "X" ELSE Prefix(dev.type)
        emits      == dev.type \in Primitive \/ model_id \in DOMAIN models
    IN  [raises |-> \E i \in 1..Len(needed) : ~Has(ports, needed[i]),
         used   |-> IF resolved THEN {model_id} ELSE {},
         elems  |-> IF emits
                    THEN << [kind |-> kind, name |-> name, nodes |-> nodes,
                             model |-> IF kind \in {"R", "C", "L", "V", "I"}
                                       THEN None ELSE model_name] >>
                    ELSE << >>]

-----------------------------------------------------------------------------
(* netlist and populate_from_nyancad as functions of one level *)

\* while net: doc = net.popleft() ..., run until the queue is empty
RECURSIVE FloodFill(_, _, _, _)
FloodFill(st, name, dindex, models) ==
    IF st.net = << >> THEN [st |-> st, name |-> name]
    ELSE LET doc  == Head(st.net)
             rest == [st EXCEPT !.net = Tail(@)]
         IN  IF doc.type = "wire"
             THEN FloodFill(WireEnds(rest, getports(doc, models), dindex, 1),
                            WireName(name, doc), dindex, models)
             ELSE FloodFill(rest, PortName(name, doc), dindex, models)

\* while wire_index: popitem, flood fill, name the net, merge it into nl
RECURSIVE FloodAll(_, _, _, _, _)
FloodAll(wire, dindex, n, num, models) ==
    IF wire = << >> THEN n
    ELSE LET f == FloodFill([net     |-> wire[Len(wire)][2],
                             wire    |-> SubSeq(wire, 1, Len(wire) - 1),
                             netdevs |-> << >>],
                            None, dindex, models)
             name == IF f.name = None THEN SynthName(num) ELSE f.name
         IN  FloodAll(f.st.wire, dindex, MergeNet(n, name, f.st.netdevs, 1),
                      IF f.name = None THEN num + 1 ELSE num, models)

\* netlist(docs, models): device id -> port name -> net name
netlist(ds, models) ==
    LET idx == port_index(ds, models)
    IN  InvertNets(<< >>, FloodAll(idx.wire, idx.device, << >>, 0, models), 1)

\* for dev_id, ports in nl.items(): self._add_nyancad_element(...)
RECURSIVE AddElements(_, _, _, _, _, _)
AddElements(acc, ds, res, models, sim, i) ==
    IF i > Len(res) \/ acc.raises THEN acc
    ELSE LET r == add_nyancad_element(res[i][1], DocOf(ds, res[i][1]), res[i][2], models, sim)
         IN  AddElements(IF r.raises
                         THEN [acc EXCEPT !.raises = TRUE]
                         ELSE [raises |-> FALSE,
                               used   |-> acc.used \cup r.used,
                               elems  |-> acc.elems \o r.elems],
                         ds, res, models, sim, i + 1)

\* fault: every model of the library counts as used
populate_from_nyancad_AllModels(ds, models, sim) ==
    IF \E i \in 1..Len(ds) : getports_raises(ds[i], models)
    THEN [raises |-> TRUE, used |-> {}, elems |-> << >>]
    ELSE [AddElements([raises |-> FALSE, used |-> {}, elems |-> << >>],
                      ds, netlist(ds, models), models, sim, 1)
             EXCEPT !.used = DOMAIN models]

\* populate_from_nyancad: [raises, used, elems], the used_models and the
\* elements of the netlist object after the call
populate_from_nyancad(ds, models, sim) ==
    IF \E i \in 1..Len(ds) : getports_raises(ds[i], models)
    THEN [raises |-> TRUE, used |-> {}, elems |-> << >>]
    ELSE AddElements([raises |-> FALSE, used |-> {}, elems |-> << >>],
                     ds, netlist(ds, models), models, sim, 1)

-----------------------------------------------------------------------------
(* populate_from_nyancad on one level *)

\* the (device, port) pairs of a result
Pairs(res) ==
    UNION {{<<res[i][1], res[i][2][j][1]>> : j \in 1..Len(res[i][2])} : i \in 1..Len(res)}

\* res[dev][port]
NetOfPair(res, pr) == Get(Get(res, pr[1]), pr[2])

\* the (device, port) pairs of a result grouped by equal net name
Partition(res) ==
    {{q \in Pairs(res) : NetOfPair(res, q) = NetOfPair(res, pr)} : pr \in Pairs(res)}

\* no NyanCircuit is under construction
CircuitIdle ==
    /\ schem = << >>
    /\ cpc = "idle"
    /\ todo = {}
    /\ subcircuits = << >>
    /\ parsed = << >>
    /\ raw_spice = << >>
    /\ spice_log = << >>
    /\ pending = << >>
    /\ dli = 0
    /\ cache = {}
    /\ downloaded = << >>

\* no get_all_schem_docs call is under way
FetchIdle ==
    /\ store = << >>
    /\ fpc = "idle"
    /\ fschem = << >>
    /\ queue = << >>
    /\ seen_models = {}
    /\ fetched = << >>

\* no concurrent emission passes
PassesIdle ==
    /\ passes = << >>
    /\ writes = << >>

\* no device is emitted under a template list of its own
TemplateIdle ==
    /\ tmpl = << >>
    /\ simname = Sim
    /\ corner = "tt"

\* the locals of one populate_from_nyancad call before its first statement
Fresh ==
    /\ pc = "start"
    /\ device_index = << >>
    /\ wire_index = << >>
    /\ nl = << >>
    /\ netnum = 0
    /\ netname = None
    /\ net = << >>
    /\ netdevs = << >>
    /\ inl = << >>
    /\ it = 0
    /\ used_models = {}
    /\ elements = << >>
    /\ raised = FALSE
    /\ visited = {}
    /\ trav = << >>
    /\ floods = << >>

Init ==
    /\ docs \in Levels(Pool, MaxDocs)
    /\ Fresh
    /\ runs = 1
    /\ prev = {}
    /\ gdoc = R1
    /\ gports = << >>
    /\ CircuitIdle /\ FetchIdle /\ PassesIdle /\ TemplateIdle

\* populate_from_nyancad up to the loop of netlist: used_models is reset and
\* port_index builds both indices, unless getports raises on a document
PortIndex ==
    /\ pc = "start"
    /\ IF \E i \in 1..Len(docs) : getports_raises(docs[i], Models)
       THEN /\ raised' = TRUE
            /\ pc' = "done"
            /\ UNCHANGED <<device_index, wire_index>>
       ELSE /\ LET idx == port_index(docs, Models)
               IN  device_index' = idx.device /\ wire_index' = idx.wire
            /\ pc' = "outer"
            /\ UNCHANGED raised
    /\ used_models' = {}
    /\ nl' = << >>
    /\ netnum' = 0
    /\ UNCHANGED <<docs, netname, net, netdevs, inl, it, elements, visited, trav,
                   floods, runs, prev, gdoc, gports>>
    /\ UNCHANGED <<cvars, fvars, pvars, tvars>>

\* while wire_index: loc, locwires = wire_index.popitem()
OuterPop ==
    /\ pc = "outer"
    /\ wire_index # << >>
    /\ netname' = None
    /\ net' = wire_index[Len(wire_index)][2]
    /\ wire_index' = SubSeq(wire_index, 1, Len(wire_index) - 1)
    /\ netdevs' = << >>
    /\ visited' = {wire_index[Len(wire_index)][1]}
    /\ trav' = << >>
    /\ pc' = "inner"
    /\ UNCHANGED <<docs, device_index, nl, netnum, inl, it, used_models, elements,
                   raised, floods, runs, prev, gdoc, gports>>
    /\ UNCHANGED <<cvars, fvars, pvars, tvars>>

\* doc = net.popleft() of a wire: its name, then both of its ends
InnerWire ==
    /\ pc = "inner"
    /\ net # << >>
    /\ Head(net).type = "wire"
    /\ LET doc == Head(net)
           st  == WireEnds([net |-> Tail(net), wire |-> wire_index, netdevs |-> netdevs],
                           getports(doc, Models), device_index, 1)
       IN  /\ netname' = WireName(netname, doc)
           /\ net' = st.net
           /\ wire_index' = st.wire
           /\ netdevs' = st.netdevs
           /\ visited' = visited \cup
                  {wire_index[i][1] : i \in {j \in 1..Len(wire_index) : ~Has(st.wire, wire_index[j][1])}}
           /\ trav' = Append(trav, doc)
    /\ UNCHANGED <<docs, pc, device_index, nl, netnum, inl, it, used_models, elements,
                   raised, floods, runs, prev, gdoc, gports>>
    /\ UNCHANGED <<cvars, fvars, pvars, tvars>>

\* doc = net.popleft() of a port
InnerPort ==
    /\ pc = "inner"
    /\ net # << >>
    /\ Head(net).type = "port"
    /\ netname' = PortName(netname, Head(net))
    /\ net' = Tail(net)
    /\ trav' = Append(trav, Head(net))
    /\ UNCHANGED <<docs, pc, device_index, wire_index, nl, netnum, netdevs, inl, it,
                   used_models, elements, raised, visited, floods, runs, prev, gdoc,
                   gports>>
    /\ UNCHANGED <<cvars, fvars, pvars, tvars>>

\* the queue is empty: the net gets its name and its devices go into nl
NetDone ==
    /\ pc = "inner"
    /\ net = << >>
    /\ LET name == IF netname = None THEN SynthName(netnum) ELSE netname
       IN  /\ netname' = name
           /\ nl' = MergeNet(nl, name, netdevs, 1)
           /\ floods' = Append(floods, [locs |-> visited, trav |-> trav, name |-> name,
                                        synth |-> netname = None])
    /\ netnum' = IF netname = None THEN netnum + 1 ELSE netnum
    /\ pc' = "outer"
    /\ UNCHANGED <<docs, device_index, wire_index, net, netdevs, inl, it, used_models,
                   elements, raised, visited, trav, runs, prev, gdoc, gports>>
    /\ UNCHANGED <<cvars, fvars, pvars, tvars>>

\* wire_index is empty: nl is inverted and netlist returns
Invert ==
    /\ pc = "outer"
    /\ wire_index = << >>
    /\ inl' = InvertNets(<< >>, nl, 1)
    /\ pc' = "populate"
    /\ UNCHANGED <<docs, device_index, wire_index, nl, netnum, netname, net, netdevs,
                   it, used_models, elements, raised, visited, trav, floods, runs, prev,
                   gdoc, gports>>
    /\ UNCHANGED <<cvars, fvars, pvars, tvars>>

\* one turn of the loop of populate_from_nyancad
AddElement ==
    /\ pc = "populate"
    /\ it < Len(inl)
    /\ LET dev_id == inl[it + 1][1]
           r == add_nyancad_element(dev_id, DocOf(docs, dev_id), inl[it + 1][2], Models, Sim)
       IN  IF r.raises
           THEN /\ raised' = TRUE
                /\ pc' = "done"
                /\ UNCHANGED <<it, used_models, elements>>
           ELSE /\ it' = it + 1
                /\ used_models' = used_models \cup r.used
                /\ elements' = elements \o r.elems
                /\ UNCHANGED <<raised, pc>>
    /\ UNCHANGED <<docs, device_index, wire_index, nl, netnum, netname, net, netdevs,
                   inl, visited, trav, floods, runs, prev, gdoc, gports>>
    /\ UNCHANGED <<cvars, fvars, pvars, tvars>>

\* populate_from_nyancad returns
Return ==
    /\ pc = "populate"
    /\ it = Len(inl)
    /\ pc' = "done"
    /\ UNCHANGED <<docs, device_index, wire_index, nl, netnum, netname, net, netdevs,
                   inl, it, used_models, elements, raised, visited, trav, floods, runs,
                   prev, gdoc, gports>>
    /\ UNCHANGED <<cvars, fvars, pvars, tvars>>

\* the same documents are netlisted again, the dict holding them in any order
Rerun ==
    /\ pc = "done"
    /\ ~raised
    /\ runs < MaxRuns
    /\ \E f \in Permutations(1..Len(docs)) : docs' = [i \in 1..Len(docs) |-> docs[f[i]]]
    /\ prev' = Partition(inl)
    /\ runs' = runs + 1
    /\ pc' = "start"
    /\ device_index' = << >>
    /\ wire_index' = << >>
    /\ nl' = << >>
    /\ netnum' = 0
    /\ netname' = None
    /\ net' = << >>
    /\ netdevs' = << >>
    /\ inl' = << >>
    /\ it' = 0
    /\ used_models' = {}
    /\ elements' = << >>
    /\ visited' = {}
    /\ trav' = << >>
    /\ floods' = << >>
    /\ UNCHANGED <<raised, gdoc, gports>>
    /\ UNCHANGED <<cvars, fvars, pvars, tvars>>

Next ==
    \/ PortIndex
    \/ OuterPop
    \/ InnerWire
    \/ InnerPort
    \/ NetDone
    \/ Invert
    \/ AddElement
    \/ Return

Spec == Init /\ [][Next]_vars

\* the level is netlisted MaxRuns times
RerunNext == Next \/ Rerun

RerunSpec == Init /\ [][RerunNext]_vars

\* levels with dangling model references
UnresolvedInit ==
    /\ docs \in Levels(UnresolvedPool, MaxDocs)
    /\ Fresh
    /\ runs = 1
    /\ prev = {}
    /\ gdoc = R1
    /\ gports = << >>
    /\ CircuitIdle /\ FetchIdle /\ PassesIdle /\ TemplateIdle

UnresolvedSpec == UnresolvedInit /\ [][Next]_vars

-----------------------------------------------------------------------------
(* getports on one two-terminal primitive *)

\* Largest distance of the origin of the primitive from (0, 0), per axis
GeomRange == 2

Rotations == {ROT0, ROT90, ROT180, ROT270}

GeomInit ==
    /\ docs = << >>
    /\ Fresh
    /\ runs = 1
    /\ prev = {}
    /\ gdoc \in {Doc("top:G1", t, x, y, 0, 0, None, tr, None) :
                    t \in TwoTerminal, x \in -GeomRange..GeomRange,
                    y \in -GeomRange..GeomRange, tr \in Rotations}
    /\ gports = << >>
    /\ CircuitIdle /\ FetchIdle /\ PassesIdle /\ TemplateIdle

\* getports(gdoc, models)
Resolve ==
    /\ pc = "start"
    /\ ~getports_raises(gdoc, Models)
    /\ gports' = getports(gdoc, Models)
    /\ pc' = "resolved"
    /\ UNCHANGED <<docs, device_index, wire_index, nl, netnum, netname, net, netdevs,
                   inl, it, used_models, elements, raised, visited, trav, floods, runs,
                   prev, gdoc>>
    /\ UNCHANGED <<cvars, fvars, pvars, tvars>>

GeomNext == Resolve

GeomSpec == GeomInit /\ [][GeomNext]_vars

-----------------------------------------------------------------------------
(* getports on one hierarchical instance of a library model *)

\* a ports map that lists no port on any edge
NoPorts == [top |-> << >>, bottom |-> << >>, left |-> << >>, right |-> << >>]

\* a library of schematic models: two ports, four ports, no port
HierModels ==
    [k \in {"models:amp", "models:buf", "models:box"} |->
        [name |-> k,
         ports |-> CASE k = "models:amp" -> Models["models:amp"].ports
                     [] k = "models:buf" ->
                            [top |-> <<"VDD">>, bottom |-> <<"VSS">>,
                             left |-> <<"IN">>, right |-> <<"OUT">>]
                     [] OTHER -> NoPorts,
         templates |-> << >>]]

HierInit ==
    /\ docs = << >>
    /\ Fresh
    /\ runs = 1
    /\ prev = {}
    /\ gdoc \in {Doc("top:X1", "ckt", x, y, 0, 0, None, tr, m) :
                    x \in -GeomRange..GeomRange, y \in -GeomRange..GeomRange,
                    tr \in Rotations, m \in {"amp", "buf", "box"}}
    /\ gports = << >>
    /\ CircuitIdle /\ FetchIdle /\ PassesIdle /\ TemplateIdle

\* getports(gdoc, models): the map, or the ValueError of rotate
ResolveInstance ==
    /\ pc = "start"
    /\ IF getports_raises(gdoc, HierModels)
       THEN /\ raised' = TRUE
            /\ pc' = "done"
            /\ UNCHANGED gports
       ELSE /\ gports' = getports(gdoc, HierModels)
            /\ pc' = "resolved"
            /\ UNCHANGED raised
    /\ UNCHANGED <<docs, device_index, wire_index, nl, netnum, netname, net, netdevs,
                   inl, it, used_models, elements, visited, trav, floods, runs,
                   prev, gdoc>>
    /\ UNCHANGED <<cvars, fvars, pvars, tvars>>

HierNext == ResolveInstance

HierSpec == HierInit /\ [][HierNext]_vars

-----------------------------------------------------------------------------
(* NyanCircuit over a full schematic, then download_includes *)

\* Largest number of documents drawn into one group on top of its fixed ones
MaxInst == 2

\* the name argument of NyanCircuit
TopName == "top"

\* the bare ids of the models of the library
ModelIds == {"top", "amp", "buf", "inv", "spare", "rmod", "cmod", "dmod"}

\* model_key_str[7:] on the keys of the library
bare_id(key) == CHOOSE b \in ModelIds : model_key(b) = key

\* one entry of templates['spice']
Tmpl(name, usex, code) == [name |-> name, usex |-> usex, code |-> code]

\* the ports of a model with one port left and one right
InOut == [top |-> << >>, bottom |-> << >>, left |-> <<"IN">>, right |-> <<"OUT">>]

\* the ports of a model with one port on every edge
Quad == [top |-> <<"VDD">>, bottom |-> <<"VSS">>, left |-> <<"IN">>, right |-> <<"OUT">>]

\* schem["models"]: five schematic models (no templates) and three SPICE
\* models, the last with a template without code; the display name of amp
\* differs from its bare id, and buf has a port on every edge
Library ==
    [k \in {model_key(b) : b \in ModelIds} |->
        CASE k = "models:amp" ->
                [name |-> "Amplifier", ports |-> InOut, templates |-> << >>]
          [] k = "models:buf" ->
                [name |-> "buf", ports |-> Quad, templates |-> << >>]
          [] k = "models:rmod" ->
                [name |-> "rmod", ports |-> InOut,
                 templates |-> << Tmpl("NgSpice", TRUE, "rmod.cir") >>]
          [] k = "models:cmod" ->
                [name |-> "cmod", ports |-> InOut,
                 templates |-> << Tmpl("Xyce", FALSE, "cmod.cir") >>]
          [] k = "models:dmod" ->
                [name |-> "dmod", ports |-> InOut,
                 templates |-> << Tmpl("NgSpice", FALSE, "") >>]
          [] OTHER ->
                [name |-> bare_id(k), ports |-> InOut, templates |-> << >>]]

\* the documents the groups are drawn from
XA == Doc("top:XA", "ckt", 0, 0, 0, 0, "XA", ROT0, "amp")
XB == Doc("top:XB", "ckt", 0, 4, 0, 0, "XB", ROT0, "buf")
XI == Doc("top:XI", "ckt", 0, 8, 0, 0, "XI", ROT0, "inv")
RM == Doc("top:RM", "resistor", 6, 0, 0, 0, "RM", ROT0, "rmod")
CM == Doc("top:CM", "capacitor", 6, 4, 0, 0, "CM", ROT0, "cmod")
DM == Doc("top:DM", "diode", 6, 8, 0, 0, "DM", ROT0, "dmod")
AB == Doc("amp:AB", "ckt", 0, 4, 0, 0, "AB", ROT0, "buf")
AI == Doc("amp:AI", "ckt", 0, 8, 0, 0, "AI", ROT0, "inv")
BI == Doc("buf:BI", "ckt", 0, 8, 0, 0, "BI", ROT0, "inv")
AR == Doc("amp:AR", "resistor", 6, 0, 0, 0, "AR", ROT0, None)
BR == Doc("buf:BR", "resistor", 6, 0, 0, 0, "BR", ROT0, None)
IR == Doc("inv:IR", "resistor", 6, 0, 0, 0, "IR", ROT0, None)
SR == Doc("spare:SR", "resistor", 6, 0, 0, 0, "SR", ROT0, None)

\* an include or lib directive of a template code: the scheme of its path, the
\* path without its fragment, and the fragment
Inc(scheme, url, entry) == [scheme |-> scheme, url |-> url, entry |-> entry]

\* spice_source._includes of the template codes in use
IncludesOf(code) ==
    CASE code = "rmod.cir" -> << Inc("https", "https://h/lib.zip", "a.lib"),
                                 Inc("https", "https://h/m.lib", "") >>
      [] code = "cmod.cir" -> << Inc("https", "https://h/lib.zip", "b.lib"),
                                 Inc("", "local.lib", "") >>
      [] OTHER -> << >>

\* cache_dir / f"{url_hash}_{filename}" on the urls in use
CachedFile(url) ==
    CASE url = "https://h/lib.zip" -> "cache/1f0e3dad_lib.zip"
      [] url = "https://h/m.lib"   -> "cache/7c2a9b10_m.lib"
      [] OTHER -> "cache/00000000_"

\* cache_dir / cached_file.stem on the cached files in use
ExtractDir(dest) ==
    CASE dest = "cache/1f0e3dad_lib.zip" -> "cache/1f0e3dad_lib"
      [] dest = "cache/7c2a9b10_m.lib"   -> "cache/7c2a9b10_m"
      [] OTHER -> dest

\* _resolve_url_path: the pending downloads after one include is resolved
\* while the paths of files exist
resolve_url_path(pend, inc, files) ==
    IF inc.scheme \in {"http", "https"} /\ CachedFile(inc.url) \notin files
    THEN Append(pend, [url |-> inc.url, dest |-> CachedFile(inc.url), entry |-> inc.entry])
    ELSE pend

\* resolve_url_includes: every include of the source in turn
RECURSIVE resolve_url_includes(_, _, _, _)
resolve_url_includes(pend, incs, files, i) ==
    IF i > Len(incs) THEN pend
    ELSE resolve_url_includes(resolve_url_path(pend, incs[i], files), incs, files, i + 1)

\* the steps of add_spice_code that can raise inside its try block
SpiceFailures == {"parse", "translate", "copy"}

\* fault: add_spice_code without its except clause
add_spice_code_Propagates(st, code, outcome, files) ==
    LET resolved == resolve_url_includes(st.pending, IncludesOf(code), files, 1)
    IN  CASE outcome = "parse" ->
                [st EXCEPT !.raises = TRUE]
          [] outcome = "translate" ->
                [st EXCEPT !.pending = resolved, !.raises = TRUE]
          [] outcome = "copy" ->
                [st EXCEPT !.pending = resolved, !.parsed = Append(@, code),
                           !.raises = TRUE]
          [] OTHER ->
                [st EXCEPT !.pending = resolved, !.parsed = Append(@, code)]

\* add_spice_code: [parsed, raw_spice, pending, raises] after the call, when
\* the step named by outcome raises inside the try block ("ok": none does)
add_spice_code(st, code, outcome, files) ==
    LET resolved == resolve_url_includes(st.pending, IncludesOf(code), files, 1)
    IN  CASE outcome = "parse" ->
                [st EXCEPT !.raw_spice = Append(@, code)]
          [] outcome = "translate" ->
                [st EXCEPT !.pending = resolved, !.raw_spice = Append(@, code)]
          [] outcome = "copy" ->
                [st EXCEPT !.pending = resolved, !.parsed = Append(@, code),
                           !.raw_spice = Append(@, code)]
          [] OTHER ->
                [st EXCEPT !.pending = resolved, !.parsed = Append(@, code)]

\* NyanSubCircuit(name, nodes, docs, models, corner, sim)
NyanSubCircuit(name, nodes, ds, models, sim) ==
    LET r == populate_from_nyancad(ds, models, sim)
    IN  [name |-> name, nodes |-> nodes, raises |-> r.raises,
         used_models |-> r.used, elements |-> r.elems]

\* [c[2] for c in port_locations(model_def['ports'])]
NodesOf(model_def) ==
    LET locs == port_locations(model_def.ports) IN [i \in 1..Len(locs) |-> locs[i][3]]

\* the code of the template selected for a model, "" when there is none
SelectedCode(model_def, sim) ==
    LET sel == select_template(model_def.templates, sim)
    IN  IF sel = << >> THEN "" ELSE sel[1].code

\* the groups of at most n documents of seq, in the order of seq
Picks(seq, n) ==
    {SelectSeq(seq, LAMBDA d : d \in T) :
        T \in {U \in SUBSET {seq[i] : i \in 1..Len(seq)} : Cardinality(U) <= n}}

\* the full schematics: the groups amp, buf and spare are present, inv may
\* be absent
Schems ==
    {[g \in gs |->
        CASE g = TopName -> t
          [] g = "amp"   -> <<AR>> \o a
          [] g = "buf"   -> <<BR>> \o b
          [] g = "inv"   -> <<IR>>
          [] OTHER       -> <<SR>>] :
     t \in Picks(<<XA, XB, XI, RM, CM, DM>>, MaxInst),
     a \in Picks(<<AB, AI>>, MaxInst),
     b \in Picks(<<BI>>, MaxInst),
     gs \in {{TopName, "amp", "buf", "spare"}, {TopName, "amp", "buf", "spare", "inv"}}}

\* the state of the cache directory before the construction
Caches == {{}, {CachedFile("https://h/lib.zip")}}

CircuitInit ==
    /\ docs = << >>
    /\ Fresh
    /\ pc = "start"
    /\ runs = 1
    /\ prev = {}
    /\ gdoc = R1
    /\ gports = << >>
    /\ schem \in Schems
    /\ cpc = "new"
    /\ todo = {}
    /\ subcircuits = << >>
    /\ parsed = << >>
    /\ raw_spice = << >>
    /\ spice_log = << >>
    /\ pending = << >>
    /\ dli = 0
    /\ cache \in Caches
    /\ downloaded = << >>
    /\ FetchIdle /\ PassesIdle /\ TemplateIdle

\* NyanCircuit.__init__ up to its loop: the top-level group is populated
Construct ==
    /\ cpc = "new"
    /\ LET r == populate_from_nyancad(schem[TopName], Library, Sim)
       IN  IF r.raises
           THEN /\ raised' = TRUE
                /\ cpc' = "raised"
                /\ UNCHANGED <<used_models, elements, todo>>
           ELSE /\ used_models' = r.used
                /\ elements' = r.elems
                /\ todo' = r.used
                /\ cpc' = "models"
                /\ UNCHANGED raised
    /\ pending' = << >>
    /\ UNCHANGED <<nvars, schem, subcircuits, parsed, spice_log, raw_spice, dli, cache, downloaded,
                   fvars, pvars, tvars>>

\* one turn of the loop over used_models, for a model whose body is a group
DeclareSubCircuit ==
    /\ cpc = "models"
    /\ \E k \in todo :
          /\ bare_id(k) # TopName
          /\ bare_id(k) \in DOMAIN schem
          /\ LET sub == NyanSubCircuit(bare_id(k), NodesOf(Library[k]), schem[bare_id(k)],
                                       Library, Sim)
             IN  IF sub.raises
                 THEN /\ raised' = TRUE
                      /\ cpc' = "raised"
                      /\ UNCHANGED <<subcircuits, todo>>
                 ELSE /\ subcircuits' = Append(subcircuits, sub)
                      /\ todo' = todo \ {k}
                      /\ UNCHANGED <<raised, cpc>>
    /\ UNCHANGED <<nvars, used_models, elements, schem, parsed, spice_log, raw_spice, pending, dli,
                   cache, downloaded, fvars, pvars, tvars>>

\* one turn of the loop, for a model without a body whose selected template
\* has code: add_spice_code
AddTemplateCode ==
    /\ cpc = "models"
    /\ \E k \in todo, outcome \in SpiceFailures \cup {"ok"} :
          /\ bare_id(k) # TopName
          /\ bare_id(k) \notin DOMAIN schem
          /\ SelectedCode(Library[k], Sim) # ""
          /\ LET st == add_spice_code([parsed |-> parsed, raw_spice |-> raw_spice,
                                       pending |-> pending, raises |-> FALSE],
                                      SelectedCode(Library[k], Sim), outcome, cache)
             IN  /\ parsed' = st.parsed
                 /\ raw_spice' = st.raw_spice
                 /\ pending' = st.pending
                 /\ raised' = st.raises
                 /\ cpc' = IF st.raises THEN "raised" ELSE cpc
                 /\ todo' = IF st.raises THEN todo ELSE todo \ {k}
          /\ spice_log' = Append(spice_log, [code    |-> SelectedCode(Library[k], Sim),
                                              outcome |-> outcome])
    /\ UNCHANGED <<nvars, used_models, elements, schem, subcircuits, dli,
                   cache, downloaded, fvars, pvars, tvars>>

\* one turn of the loop that adds nothing: the top-level model itself, or a
\* model without a body and without template code
SkipModel ==
    /\ cpc = "models"
    /\ \E k \in todo :
          /\ \/ bare_id(k) = TopName
             \/ bare_id(k) \notin DOMAIN schem /\ SelectedCode(Library[k], Sim) = ""
          /\ todo' = todo \ {k}
    /\ UNCHANGED <<nvars, used_models, elements, raised, schem, cpc, subcircuits, parsed, spice_log,
                   raw_spice, pending, dli, cache, downloaded, fvars, pvars, tvars>>

\* the loop over used_models is over: NyanCircuit.__init__ returns
Built ==
    /\ cpc = "models"
    /\ todo = {}
    /\ cpc' = "built"
    /\ UNCHANGED <<nvars, used_models, elements, raised, schem, todo, subcircuits, parsed, spice_log,
                   raw_spice, pending, dli, cache, downloaded, fvars, pvars, tvars>>

\* what download_file and unpack_archive can do on one pending entry
DownloadOutcomes ==
    {"ok", "download fails", "download fails midway", "extract fails"}

\* the paths that exist after one turn of the loop of download_includes
AfterDownload(files, e, outcome) ==
    CASE outcome = "download fails" -> files
      [] outcome = "download fails midway" -> files \cup {e.dest}
      [] outcome = "extract fails" -> files \cup {e.dest}
      [] OTHER -> files \cup {e.dest}
                    \cup (IF e.entry # "" THEN {ExtractDir(e.dest)} ELSE {})

\* unpack_archive is called on the entry: it has an entry point and its
\* extraction directory does not exist
Unpacks(files, e) == e.entry # "" /\ ExtractDir(e.dest) \notin files

\* fault: download_includes without its try block
DownloadEntry_FailureAborts ==
    /\ cpc = "built"
    /\ dli < Len(pending)
    /\ \E outcome \in DownloadOutcomes :
          /\ outcome = "extract fails" => Unpacks(cache, pending[dli + 1])
          /\ cache' = AfterDownload(cache, pending[dli + 1], outcome)
          /\ downloaded' = Append(downloaded, [url     |-> pending[dli + 1].url,
                                               outcome |-> outcome])
          /\ raised' = (outcome # "ok")
          /\ cpc' = IF outcome # "ok" THEN "raised" ELSE cpc
    /\ dli' = dli + 1
    /\ UNCHANGED <<nvars, used_models, elements, schem, todo, subcircuits,
                   parsed, spice_log, raw_spice, pending, fvars, pvars, tvars>>

\* one turn of the loop of download_includes
DownloadEntry ==
    /\ cpc = "built"
    /\ dli < Len(pending)
    /\ \E outcome \in DownloadOutcomes :
          /\ outcome = "extract fails" => Unpacks(cache, pending[dli + 1])
          /\ cache' = AfterDownload(cache, pending[dli + 1], outcome)
          /\ downloaded' = Append(downloaded, [url     |-> pending[dli + 1].url,
                                               outcome |-> outcome])
    /\ dli' = dli + 1
    /\ UNCHANGED <<nvars, used_models, elements, raised, schem, cpc, todo, subcircuits,
                   parsed, spice_log, raw_spice, pending, fvars, pvars, tvars>>

\* self._pending_downloads.clear(): download_includes returns
ClearPending ==
    /\ cpc = "built"
    /\ dli = Len(pending)
    /\ pending' = << >>
    /\ dli' = 0
    /\ cpc' = "downloaded"
    /\ UNCHANGED <<nvars, used_models, elements, raised, schem, todo, subcircuits, parsed, spice_log,
                   raw_spice, cache, downloaded, fvars, pvars, tvars>>

CircuitNext ==
    \/ Construct
    \/ DeclareSubCircuit
    \/ AddTemplateCode
    \/ SkipModel
    \/ Built
    \/ DownloadEntry
    \/ ClearPending

CircuitSpec == CircuitInit /\ [][CircuitNext]_vars

-----------------------------------------------------------------------------
(* ServerAPI.get_all_schem_docs over a document store *)

\* Largest number of documents of one group of the store
MaxRefs == 2

\* documents with a dangling model reference, and with references that close
\* a cycle of instantiation
XM == Doc("top:XM", "ckt", 0, 12, 0, 0, "XM", ROT0, "missing")
AT == Doc("amp:AT", "ckt", 0, 12, 0, 0, "AT", ROT0, "top")
BA == Doc("buf:BA", "ckt", 0, 12, 0, 0, "BA", ROT0, "amp")

\* the document stores: every group may be empty, which is how a group that
\* is absent from the store reads
Stores ==
    {[g \in {TopName, "amp", "buf", "inv"} |->
        CASE g = TopName -> t
          [] g = "amp"   -> a
          [] g = "buf"   -> b
          [] OTHER       -> i] :
     t \in Picks(<<XA, XB, XI, XM, RM, W1>>, MaxRefs),
     a \in Picks(<<AB, AI, AT>>, MaxRefs),
     b \in Picks(<<BI, BA>>, MaxRefs),
     i \in Picks(<<IR>>, MaxRefs)}

\* get_docs(name): the documents whose id starts with name and a colon
get_docs(db, name) == IF name \in DOMAIN db THEN db[name] ELSE << >>

\* dev.get('model') is falsy
NoModel(dev) == dev.model = None \/ dev.model = ""

\* not model_def.get('templates'): a schematic model
IsSchematic(model_def) == model_def.templates = << >>

FetchInit ==
    /\ docs = << >>
    /\ Fresh
    /\ runs = 1
    /\ prev = {}
    /\ gdoc = R1
    /\ gports = << >>
    /\ CircuitIdle
    /\ PassesIdle /\ TemplateIdle
    /\ store \in Stores
    /\ fpc = "start"
    /\ fschem = << >>
    /\ queue = << >>
    /\ seen_models = {}
    /\ fetched = << >>

\* seq, models = await self.get_docs("models"); schem["models"] = models
FetchModels ==
    /\ fpc = "start"
    /\ fetched' = Append(fetched, "models")
    /\ fschem' = ("models" :> Library)
    /\ fpc' = "main"
    /\ UNCHANGED <<nvars, used_models, elements, raised, cvars, pvars, tvars, store, queue,
                   seen_models>>

\* seq, docs = await self.get_docs(name): an empty group returns at once
FetchMain ==
    /\ fpc = "main"
    /\ fetched' = Append(fetched, TopName)
    /\ LET ds == get_docs(store, TopName)
       IN  IF ds = << >>
           THEN /\ fpc' = "done"
                /\ UNCHANGED <<fschem, queue>>
           ELSE /\ fschem' = (TopName :> ds) @@ fschem
                /\ queue' = ds
                /\ fpc' = "bfs"
    /\ UNCHANGED <<nvars, used_models, elements, raised, cvars, pvars, tvars, store, seen_models>>

\* dev = queue.popleft() of a document without a model or with a seen model
SkipDoc ==
    /\ fpc = "bfs"
    /\ queue # << >>
    /\ NoModel(Head(queue)) \/ model_key(Head(queue).model) \in seen_models
    /\ queue' = Tail(queue)
    /\ UNCHANGED <<nvars, used_models, elements, raised, cvars, pvars, tvars, store, fpc, fschem,
                   seen_models, fetched>>

\* dev = queue.popleft() of a document whose model is marked seen and needs no
\* fetch: not in the library, with templates, or with its body in the result
MarkModel ==
    /\ fpc = "bfs"
    /\ queue # << >>
    /\ ~NoModel(Head(queue))
    /\ LET key == model_key(Head(queue).model)
       IN  /\ key \notin seen_models
           /\ IF key \in DOMAIN Library
              THEN ~IsSchematic(Library[key]) \/ Head(queue).model \in DOMAIN fschem
              ELSE TRUE
           /\ seen_models' = seen_models \cup {key}
    /\ queue' = Tail(queue)
    /\ UNCHANGED <<nvars, used_models, elements, raised, cvars, pvars, tvars, store, fpc, fschem,
                   fetched>>

\* fault: seen_models.add is left out when a body is fetched
FetchBody_NoMark ==
    /\ fpc = "bfs"
    /\ queue # << >>
    /\ ~NoModel(Head(queue))
    /\ LET bare == Head(queue).model
           key  == model_key(bare)
           sub  == get_docs(store, bare)
       IN  /\ key \notin seen_models
           /\ key \in DOMAIN Library
           /\ IsSchematic(Library[key])
           /\ bare \notin DOMAIN fschem
           /\ UNCHANGED seen_models
           /\ fetched' = Append(fetched, bare)
           /\ IF sub # << >>
              THEN /\ fschem' = (bare :> sub) @@ fschem
                   /\ queue' = Tail(queue) \o sub
              ELSE /\ queue' = Tail(queue)
                   /\ UNCHANGED fschem
    /\ UNCHANGED <<nvars, used_models, elements, raised, cvars, pvars, tvars, store, fpc>>

\* fault: the seen-set is not consulted before a body is fetched
FetchBody_IgnoresSeen ==
    /\ fpc = "bfs"
    /\ queue # << >>
    /\ ~NoModel(Head(queue))
    /\ LET bare == Head(queue).model
           key  == model_key(bare)
           sub  == get_docs(store, bare)
       IN  /\ key \in DOMAIN Library
           /\ IsSchematic(Library[key])
           /\ bare \notin DOMAIN fschem
           /\ seen_models' = seen_models \cup {key}
           /\ fetched' = Append(fetched, bare)
           /\ IF sub # << >>
              THEN /\ fschem' = (bare :> sub) @@ fschem
                   /\ queue' = Tail(queue) \o sub
              ELSE /\ queue' = Tail(queue)
                   /\ UNCHANGED fschem
    /\ UNCHANGED <<nvars, used_models, elements, raised, cvars, pvars, tvars, store, fpc>>

\* fault: the documents of a fetched body are not queued for inspection
FetchBody_NoEnqueue ==
    /\ fpc = "bfs"
    /\ queue # << >>
    /\ ~NoModel(Head(queue))
    /\ LET bare == Head(queue).model
           key  == model_key(bare)
           sub  == get_docs(store, bare)
       IN  /\ key \notin seen_models
           /\ key \in DOMAIN Library
           /\ IsSchematic(Library[key])
           /\ bare \notin DOMAIN fschem
           /\ seen_models' = seen_models \cup {key}
           /\ fetched' = Append(fetched, bare)
           /\ IF sub # << >>
              THEN /\ fschem' = (bare :> sub) @@ fschem
                   /\ queue' = Tail(queue)
              ELSE /\ queue' = Tail(queue)
                   /\ UNCHANGED fschem
    /\ UNCHANGED <<nvars, used_models, elements, raised, cvars, pvars, tvars, store, fpc>>

\* dev = queue.popleft() of a document whose unseen schematic model has no
\* body in the result: the body is fetched and, unless empty, stored and queued
FetchBody ==
    /\ fpc = "bfs"
    /\ queue # << >>
    /\ ~NoModel(Head(queue))
    /\ LET bare == Head(queue).model
           key  == model_key(bare)
           sub  == get_docs(store, bare)
       IN  /\ key \notin seen_models
           /\ key \in DOMAIN Library
           /\ IsSchematic(Library[key])
           /\ bare \notin DOMAIN fschem
           /\ seen_models' = seen_models \cup {key}
           /\ fetched' = Append(fetched, bare)
           /\ IF sub # << >>
              THEN /\ fschem' = (bare :> sub) @@ fschem
                   /\ queue' = Tail(queue) \o sub
              ELSE /\ queue' = Tail(queue)
                   /\ UNCHANGED fschem
    /\ UNCHANGED <<nvars, used_models, elements, raised, cvars, pvars, tvars, store, fpc>>

\* the queue is empty: return seq, schem
FetchReturn ==
    /\ fpc = "bfs"
    /\ queue = << >>
    /\ fpc' = "done"
    /\ UNCHANGED <<nvars, used_models, elements, raised, cvars, pvars, tvars, store, fschem,
                   queue, seen_models, fetched>>

FetchNext ==
    \/ FetchModels
    \/ FetchMain
    \/ SkipDoc
    \/ MarkModel
    \/ FetchBody
    \/ FetchReturn

FetchSpec == FetchInit /\ [][FetchNext]_vars

\* the coroutine is driven to completion: every await on the store returns
\* and the loop body runs whenever the queue holds a document
FetchLiveSpec == FetchSpec /\ WF_vars(FetchNext)

-----------------------------------------------------------------------------
(* _add_nyancad_element on one primitive device under a template list *)

\* Largest number of entries of templates['spice']
MaxTemplates == 2

\* the entries of templates['spice']: a missing name reads '', a missing
\* use-x reads False
TemplatePool ==
    {Tmpl(n, x, "") : n \in {"NgSpice", "NGSPICE", "Xyce", ""}, x \in BOOLEAN}

\* the sim arguments
Sims == {"NgSpice", "ngspice", "Xyce"}

\* the model library with the one model of the device
TemplateModels(templates) ==
    "models:tmod" :> [name |-> "tmod", ports |-> InOut, templates |-> templates]

TemplateInit ==
    /\ docs = << >>
    /\ Fresh
    /\ runs = 1
    /\ prev = {}
    /\ gdoc \in {Doc("top:T1", t, 0, 0, 0, 0, "T1", ROT0, "tmod") : t \in Primitive}
    /\ gports = << >>
    /\ CircuitIdle /\ FetchIdle /\ PassesIdle
    /\ tmpl \in UNION {[1..n -> TemplatePool] : n \in 0..MaxTemplates}
    /\ simname \in Sims
    /\ corner = "tt"

\* populate_from_nyancad on the level that holds the device alone
EmitDevice ==
    /\ pc = "start"
    /\ LET r == populate_from_nyancad(<<gdoc>>, TemplateModels(tmpl), simname)
       IN  /\ raised' = r.raises
           /\ used_models' = r.used
           /\ elements' = r.elems
    /\ pc' = "emitted"
    /\ UNCHANGED <<docs, device_index, wire_index, nl, netnum, netname, net, netdevs,
                   inl, it, visited, trav, floods, runs, prev, gdoc, gports,
                   cvars, fvars, pvars, tvars>>

TemplateNext == EmitDevice

TemplateSpec == TemplateInit /\ [][TemplateNext]_vars

-----------------------------------------------------------------------------
(* NyanCircuit on one primitive device whose model carries declaration and
   reference templates, emitted for a corner *)

\* the corner arguments
Corners == {"tt", "ff"}

\* the declaration and reference templates of a template entry: both absent,
\* or both present
DeclRefs ==
    {[decl |-> "", ref |-> ""],
     [decl |-> ".model tmod_{corner} D", ref |-> "D{name} {ports} tmod_{corner}"]}

\* the entries of templates['spice'] of the model of the device
CornerPool ==
    {[name |-> "NgSpice", usex |-> x, code |-> c, decltempl |-> dr.decl, reftempl |-> dr.ref] :
        x \in BOOLEAN, c \in {"", "tmod.cir"}, dr \in DeclRefs}

CornerInit ==
    /\ docs = << >>
    /\ Fresh
    /\ runs = 1
    /\ prev = {}
    /\ gdoc \in {Doc("top:T1", t, 0, 0, 0, 0, "T1", ROT0, "tmod") : t \in Primitive}
    /\ gports = << >>
    /\ CircuitIdle /\ FetchIdle /\ PassesIdle
    /\ tmpl \in {<< >>} \cup {<<t>> : t \in CornerPool}
    /\ simname \in Sims
    /\ corner \in Corners

\* the loop of NyanCircuit.__init__ on the one used model, which has no body:
\* the code of its selected template, if any, goes to add_spice_code
AddDeviceCode ==
    /\ pc = "emitted"
    /\ LET code == SelectedCode(TemplateModels(tmpl)["models:tmod"], simname)
       IN  IF code = ""
           THEN UNCHANGED <<parsed, raw_spice, pending, spice_log>>
           ELSE \E outcome \in SpiceFailures \cup {"ok"} :
                   LET st == add_spice_code([parsed |-> parsed, raw_spice |-> raw_spice,
                                             pending |-> pending, raises |-> FALSE],
                                            code, outcome, cache)
                   IN  /\ parsed' = st.parsed
                       /\ raw_spice' = st.raw_spice
                       /\ pending' = st.pending
                       /\ spice_log' = Append(spice_log, [code |-> code, outcome |-> outcome])
    /\ pc' = "declared"
    /\ UNCHANGED <<docs, device_index, wire_index, nl, netnum, netname, net, netdevs,
                   inl, it, visited, trav, floods, runs, prev, gdoc, gports,
                   used_models, elements, raised, schem, cpc, todo, subcircuits, dli,
                   cache, downloaded, fvars, pvars, tvars>>

CornerNext == EmitDevice \/ AddDeviceCode

CornerSpec == CornerInit /\ [][CornerNext]_vars

-----------------------------------------------------------------------------
(* Two emission passes on one cache directory *)

\* Largest number of include directives of the template code of a pass
MaxIncludes == 2

\* the two passes
PassIds == {"A", "B"}

\* the include directives the passes resolve
IncludePool ==
    {Inc("https", "https://h/lib.zip", "a.lib"), Inc("https", "https://h/m.lib", "")}

PassesInit ==
    /\ docs = << >>
    /\ Fresh
    /\ runs = 1
    /\ prev = {}
    /\ gdoc = R1
    /\ gports = << >>
    /\ FetchIdle /\ TemplateIdle
    /\ schem = << >>
    /\ cpc = "idle"
    /\ todo = {}
    /\ subcircuits = << >>
    /\ parsed = << >>
    /\ raw_spice = << >>
    /\ spice_log = << >>
    /\ pending = << >>
    /\ dli = 0
    /\ cache \in Caches
    /\ downloaded = << >>
    /\ \E incs \in UNION {[1..n -> IncludePool] : n \in 1..MaxIncludes} :
          passes = [p \in PassIds |-> [pc |-> "resolve", incs |-> incs,
                                       pending |-> << >>, i |-> 0]]
    /\ writes = << >>

\* the synchronous emission of pass p: resolve_url_includes on its includes
PassResolve(p) ==
    /\ passes[p].pc = "resolve"
    /\ passes' = [passes EXCEPT ![p].pending =
                                    resolve_url_includes(<< >>, passes[p].incs, cache, 1),
                                ![p].pc = "download"]
    /\ UNCHANGED <<nvars, used_models, elements, raised, cvars, fvars, tvars, writes>>

\* download_includes of pass p: download_file on its next pending entry,
\* which writes the cache file unless the download fails before any byte
PassDownload(p) ==
    /\ passes[p].pc = "download"
    /\ passes[p].i < Len(passes[p].pending)
    /\ LET e == passes[p].pending[passes[p].i + 1]
       IN  \E outcome \in {"ok", "download fails", "download fails midway"} :
              /\ cache' = IF outcome = "download fails" THEN cache
                          ELSE cache \cup {e.dest}
              /\ writes' = IF outcome = "download fails" THEN writes
                           ELSE Append(writes, [pass |-> p, path |-> e.dest])
              /\ passes' = IF outcome = "ok" /\ e.entry # ""
                           THEN [passes EXCEPT ![p].pc = "extract"]
                           ELSE [passes EXCEPT ![p].i = @ + 1]
    /\ UNCHANGED <<nvars, used_models, elements, raised, schem, cpc, todo, subcircuits,
                   parsed, raw_spice, spice_log, pending, dli, downloaded, fvars, tvars>>

\* if not extract_dir.exists(): shutil.unpack_archive(dest_path, extract_dir)
PassExtract(p) ==
    /\ passes[p].pc = "extract"
    /\ LET e == passes[p].pending[passes[p].i + 1]
       IN  IF Unpacks(cache, e)
           THEN /\ cache' = cache \cup {ExtractDir(e.dest)}
                /\ writes' = Append(writes, [pass |-> p, path |-> ExtractDir(e.dest)])
           ELSE UNCHANGED <<cache, writes>>
    /\ passes' = [passes EXCEPT ![p].i = @ + 1, ![p].pc = "download"]
    /\ UNCHANGED <<nvars, used_models, elements, raised, schem, cpc, todo, subcircuits,
                   parsed, raw_spice, spice_log, pending, dli, downloaded, fvars, tvars>>

\* self._pending_downloads.clear() of pass p
PassReturn(p) ==
    /\ passes[p].pc = "download"
    /\ passes[p].i = Len(passes[p].pending)
    /\ passes' = [passes EXCEPT ![p].pending = << >>, ![p].i = 0, ![p].pc = "done"]
    /\ UNCHANGED <<nvars, used_models, elements, raised, cvars, fvars, tvars, writes>>

PassesNext ==
    \E p \in PassIds :
        \/ PassResolve(p)
        \/ PassDownload(p)
        \/ PassExtract(p)
        \/ PassReturn(p)

PassesSpec == PassesInit /\ [][PassesNext]_vars

-----------------------------------------------------------------------------
(* Vocabulary of the properties *)

\* the documents of the level
DocSet == {docs[i] : i \in 1..Len(docs)}

\* netlist has returned
Finished == pc \in {"populate", "done"} /\ ~raised

\* a document that is indexed as a device, not as a wire-like entity
IsDevice(d) == d.type \notin {"wire", "port"}

\* the (coordinate, port name) pairs the geometry resolver yields for d
Terminals(d) ==
    LET gp == getports(d, Models) IN {<<gp[i][1], gp[i][2]>> : i \in 1..Len(gp)}

\* the two ends of a wire document
WireEndsOf(w) == {<<w.x, w.y>>, <<w.x + w.rx, w.y + w.ry>>}

\* the result has a net for port p of device d, and that net
HasNet(d, p) ==
    /\ Has(inl, d.id)
    /\ Cardinality({j \in 1..Len(Get(inl, d.id)) : Get(inl, d.id)[j][1] = p}) = 1
NetOf(d, p) == Get(Get(inl, d.id), p)

\* the coordinates joined to a coordinate of S by the wire documents of the level
RECURSIVE Reach(_)
Reach(S) ==
    LET S2 == S \cup UNION {WireEndsOf(w) :
                  w \in {v \in DocSet : v.type = "wire" /\ WireEndsOf(v) \cap S # {}}}
    IN  IF S2 = S THEN S ELSE Reach(S2)

\* the device terminals <<device, port>> lying on a coordinate of S
TerminalsOn(S) ==
    UNION {{<<d, t[2]>> : t \in {u \in Terminals(d) : u[1] \in S}} :
              d \in {e \in DocSet : IsDevice(e)}}

-----------------------------------------------------------------------------
(* C1 *)

\* C1 as stated: for the level {W1 (0,0)-(2,0), R1 at (0,0) identity, port VIN
\* at (2,0)} netlist maps terminal P of R1 to the net name VIN.
C1_Claim ==
    (Finished /\ DocSet = {W1, R1, PVIN}) =>
        HasNet(R1, "P") /\ NetOf(R1, "P") = "VIN"

\* C1 amended: in that level P of R1 lies at (1,0), on no end of the wire, and
\* P and N get two different synthesized names; the wire carries the port name
\* to a resistor terminal on its far end (0,0): N (and P) of a resistor at
\* (0,-1) under the 90 degree transform are mapped to VIN.
C1_Amended ==
    Finished =>
        /\ DocSet = {W1, R1, PVIN} =>
              /\ HasNet(R1, "P") /\ HasNet(R1, "N")
              /\ {NetOf(R1, "P"), NetOf(R1, "N")} = {"net0", "net1"}
        /\ DocSet = {W1, R3, PVIN} =>
              /\ HasNet(R3, "P") /\ HasNet(R3, "N")
              /\ NetOf(R3, "N") = "VIN" /\ NetOf(R3, "P") = "VIN"

C1_Witness ==
    /\ pc = "done" /\ ~raised
    /\ DocSet = {W1, R1, PVIN}
    /\ NetOf(R1, "P") # "VIN"

-----------------------------------------------------------------------------
(* C2 *)

\* C2: two wires sharing an endpoint coordinate are in the same net for every
\* order of the level: all device terminals on an end of either wire have a
\* net, and the same one.
C2_WiresMerge ==
    Finished =>
        \A w1, w2 \in {w \in DocSet : w.type = "wire"} :
            (w1 # w2 /\ WireEndsOf(w1) \cap WireEndsOf(w2) # {}) =>
                \A a, b \in TerminalsOn(WireEndsOf(w1) \cup WireEndsOf(w2)) :
                    /\ HasNet(a[1], a[2])
                    /\ HasNet(b[1], b[2])
                    /\ NetOf(a[1], a[2]) = NetOf(b[1], b[2])

\* W1 and W2 share (2,0); P of R1 is on the other end of W2, N of R3 on the
\* other end of W1
C2_Witness ==
    /\ Finished
    /\ {W1, W2, R1, R3} \subseteq DocSet
    /\ NetOf(R1, "P") = NetOf(R3, "N")

-----------------------------------------------------------------------------
(* C3 *)

\* C3: two device terminals that the geometry resolver places on the same
\* coordinate have a net, and the same one, also when no wire or port
\* document touches the coordinate.
C3_StubJoins ==
    Finished =>
        \A c \in UNION {{t[1] : t \in Terminals(d)} : d \in {e \in DocSet : IsDevice(e)}} :
            \A a, b \in TerminalsOn({c}) :
                /\ HasNet(a[1], a[2])
                /\ HasNet(b[1], b[2])
                /\ NetOf(a[1], a[2]) = NetOf(b[1], b[2])

\* OUT of X1 and P of R1 are both at (1,0), which no wire or port touches
C3_Witness ==
    /\ Finished
    /\ {X1, R1} \subseteq DocSet
    /\ \A d \in DocSet : d.type \in {"wire", "port"} =>
           \A t \in Terminals(d) : t[1] # <<1, 0>>
    /\ NetOf(X1, "OUT") = NetOf(R1, "P")

-----------------------------------------------------------------------------
(* C4 *)

\* the traversals that took the bucket of coordinate c
FloodsOf(c) == {i \in 1..Len(floods) : c \in floods[i].locs}

-----------------------------------------------------------------------------
(* C5 *)

\* C5: a second netlist run on the same documents, held in any dict order,
\* puts the (device, port) pairs into the same partition by net name as the
\* run before it.
C5_SamePartition ==
    (Finished /\ runs > 1) => Partition(inl) = prev

-----------------------------------------------------------------------------
(* C6 *)

\* the non-null names of the wires and ports a traversal met
ExplicitNames(f) == {f.trav[k].name : k \in 1..Len(f.trav)} \ {None}

\* C6: net names are unique within one call: two traversals that meet no
\* common explicit wire or port name never get the same net name, so a
\* synthesized net{n} equals neither an explicit name nor another
\* synthesized name.
C6_UniqueNames ==
    \A i, j \in 1..Len(floods) :
        (i # j /\ floods[i].name = floods[j].name) =>
            ExplicitNames(floods[i]) \cap ExplicitNames(floods[j]) # {}

-----------------------------------------------------------------------------
(* C7 *)

FirstWireName(t, from) ==
    LET named == {k \in from..Len(t) : t[k].type = "wire" /\ t[k].name # None}
    IN  IF named = {} THEN None
        ELSE t[CHOOSE k \in named : \A m \in named : k <= m].name

\* the last port of t, 0 if there is none
LastPort(t) ==
    LET ps == {k \in 1..Len(t) : t[k].type = "port"}
    IN  IF ps = {} THEN 0 ELSE CHOOSE k \in ps : \A m \in ps : m <= k

\* the name the entities t met so far leave on the net: the name of the last
\* port, or when there is no port or its name is null the first wire name
\* met after it
NameAfter(t) ==
    IF LastPort(t) # 0 /\ t[LastPort(t)].name # None
    THEN t[LastPort(t)].name
    ELSE FirstWireName(t, LastPort(t) + 1)

-----------------------------------------------------------------------------
(* C8 *)

\* C8: two ports with the same name at different coordinates that no wire
\* joins connect: the device terminals on the component of one and those on
\* the component of the other all get the same net name.
C8_SameNamePortsConnect ==
    Finished =>
        \A p1, p2 \in {d \in DocSet : d.type = "port"} :
            (/\ p1 # p2
             /\ p1.name = p2.name
             /\ p1.name # None
             /\ <<p2.x, p2.y>> \notin Reach({<<p1.x, p1.y>>})) =>
                \A a \in TerminalsOn(Reach({<<p1.x, p1.y>>})) :
                    \A b \in TerminalsOn(Reach({<<p2.x, p2.y>>})) :
                        /\ HasNet(a[1], a[2])
                        /\ HasNet(b[1], b[2])
                        /\ NetOf(a[1], a[2]) = NetOf(b[1], b[2])

-----------------------------------------------------------------------------
(* C9 *)

\* the map m holds exactly port P at p and port N at n
TwoPorts(m, p, n) ==
    /\ Len(m) = 2
    /\ p # n
    /\ Has(m, p) /\ Get(m, p) = "P"
    /\ Has(m, n) /\ Get(m, n) = "N"

\* the same primitive under another transform
Turned(d, tr) == [d EXCEPT !.transform = tr]

\* C9: for a two-terminal primitive at (x, y): identity puts P at (x+1, y) and
\* N at (x+1, y+2); 180 degrees exchanges P and N; 90 and 270 degrees put the
\* terminals on row y+1 at columns x and x+2 and exchange P and N with
\* respect to each other.
C9_Rotations ==
    pc = "resolved" =>
        LET x == gdoc.x
            y == gdoc.y
        IN  /\ gdoc.transform = ROT0 => TwoPorts(gports, <<x + 1, y>>, <<x + 1, y + 2>>)
            /\ gdoc.transform = ROT180 => TwoPorts(gports, <<x + 1, y + 2>>, <<x + 1, y>>)
            /\ gdoc.transform \in {ROT90, ROT270} =>
                  /\ \/ TwoPorts(gports, <<x, y + 1>>, <<x + 2, y + 1>>)
                     \/ TwoPorts(gports, <<x + 2, y + 1>>, <<x, y + 1>>)
                  /\ LET other == getports(Turned(gdoc, IF gdoc.transform = ROT90
                                                        THEN ROT270 ELSE ROT90), Models)
                     IN  \A c \in {<<x, y + 1>>, <<x + 2, y + 1>>} :
                             Has(other, c) /\ Get(other, c) # Get(gports, c)

C9_Witness ==
    /\ pc = "resolved"
    /\ gdoc.transform = ROT180
    /\ gdoc.x = 1 /\ gdoc.y = -2
    /\ TwoPorts(gports, <<2, 0>>, <<2, -2>>)

-----------------------------------------------------------------------------
(* C10 *)

\* a hierarchical instance whose model reference does not resolve
Unresolved(d) ==
    /\ d.type \notin Primitive \cup {"wire", "port", "text"}
    /\ (d.model = None \/ model_key(d.model) \notin DOMAIN Models)

\* the device ids nl holds
DevsInNl == UNION {{nl[i][2][j][1] : j \in 1..Len(nl[i][2])} : i \in 1..Len(nl)}

-----------------------------------------------------------------------------
(* Properties of NyanCircuit *)

\* NyanCircuit.__init__ has returned
Constructed == cpc \in {"built", "downloaded"}

\* the positions in group g of the devices that instantiate the model with
\* bare id b
Instances(g, b) ==
    {i \in 1..Len(schem[g]) :
        /\ IsDevice(schem[g][i])
        /\ schem[g][i].model = b
        /\ model_key(b) \in DOMAIN Library}

\* the groups reached from S through instances of models whose body is present
RECURSIVE Closure(_)
Closure(S) ==
    LET T == S \cup {b \in DOMAIN schem : \E g \in S : Instances(g, b) # {}}
    IN  IF T = S THEN S ELSE Closure(T)

\* the groups of the hierarchy under the top-level group
Hierarchy == Closure({TopName})

\* the calls of self.subcircuit that declared the sub-circuit named b
Declarations(b) == {i \in 1..Len(subcircuits) : subcircuits[i].name = b}

\* the groups whose devices are emitted: the top-level group and the bodies
\* of the declared sub-circuits
EmittedGroups == {TopName} \cup {subcircuits[i].name : i \in 1..Len(subcircuits)}

\* C11: a sub-circuit whose body is present and that is instantiated from two
\* different groups of the hierarchy, top-level or not, is declared exactly
\* once in the circuit NyanCircuit has built
C11_DeclaredOnce ==
    Constructed =>
        \A b \in DOMAIN schem \ {TopName} :
            (\E g1, g2 \in Hierarchy :
                g1 # g2 /\ Instances(g1, b) # {} /\ Instances(g2, b) # {})
            => Cardinality(Declarations(b)) = 1

\* the positions of the top-level devices that populate_from_nyancad emitted
\* for model key k
EmittedFor(k) ==
    {j \in 1..Len(schem[TopName]) :
        /\ IsDevice(schem[TopName][j])
        /\ model_key(schem[TopName][j].model) = k
        /\ \E i \in 1..Len(elements) : elements[i].name = schem[TopName][j].name}

\* the model keys whose selected template code was handed to add_spice_code
CodeKeys ==
    [code \in {SelectedCode(Library[k], Sim) : k \in DOMAIN Library} |->
        {k \in DOMAIN Library : SelectedCode(Library[k], Sim) = code}]

CodeAddedFor(code) == CodeKeys[code]

\* C12: a sub-circuit is declared for a model, and a model's template code is
\* added, only if the model is in used_models, and a model is in used_models
\* only if an emitted device instantiates it; a model that no device
\* instantiates never appears, even with its body present as a group
C12_OnlyUsedModels ==
    /\ \A k \in used_models : EmittedFor(k) # {}
    /\ \A i \in 1..Len(subcircuits) : model_key(subcircuits[i].name) \in used_models
    /\ \A i \in 1..Len(spice_log) : CodeAddedFor(spice_log[i].code) \cap used_models # {}
    /\ \A i \in 1..Len(parsed) : CodeAddedFor(parsed[i]) \cap used_models # {}
    /\ \A i \in 1..Len(raw_spice) : CodeAddedFor(raw_spice[i]) \cap used_models # {}
    /\ \A b \in ModelIds :
          (\A g \in DOMAIN schem : Instances(g, b) = {})
          => /\ Declarations(b) = {}
             /\ \A i \in 1..Len(spice_log) : model_key(b) \notin CodeAddedFor(spice_log[i].code)

\* C12 witness: a circuit is built with a declared sub-circuit and an added
\* template code, while the library model spare, body present, is instantiated
\* by no device, and amp, body present, is not instantiated by the top level
C12_Witness ==
    /\ Constructed
    /\ subcircuits # << >>
    /\ spice_log # << >>
    /\ "spare" \in DOMAIN schem
    /\ Instances(TopName, "amp") = {}
    /\ "models:inv" \in used_models

\* C20: every schematic model that a device of an emitted group instantiates
\* and whose body is present as a group is declared as a sub-circuit
C20_NoMissingDefinition ==
    Constructed =>
        \A g \in EmittedGroups : \A b \in DOMAIN schem \ {TopName} :
            Instances(g, b) # {} => Declarations(b) # {}

-----------------------------------------------------------------------------
(* Properties of get_all_schem_docs *)

\* the groups of documents of the result, the model library aside
ResultGroups == DOMAIN fschem \ {"models"}

\* the documents of group g of the result that carry a model reference
References(g) == {d \in {fschem[g][i] : i \in 1..Len(fschem[g])} : ~NoModel(d)}

\* the get_docs calls for the group named b
Fetches(b) == {i \in 1..Len(fetched) : fetched[i] = b}

\* the model with bare id b is in the library and has no templates
SchematicModel(b) ==
    IF model_key(b) \in DOMAIN Library THEN IsSchematic(Library[model_key(b)]) ELSE FALSE

C14_Claim ==
    fpc = "done" =>
        \A g \in ResultGroups : \A d \in References(g) :
            /\ model_key(d.model) \in DOMAIN fschem["models"]
            /\ SchematicModel(d.model) => d.model \in ResultGroups

\* C14 amended: for every reference of the result to a library model without
\* templates, the body is a group of the result exactly when the store holds
\* a document of it, and then the group holds the documents of the store; a
\* reference to no library entry stays in the result
C14_Amended ==
    fpc = "done" =>
        \A g \in ResultGroups : \A d \in References(g) :
            SchematicModel(d.model) =>
                IF get_docs(store, d.model) # << >>
                THEN /\ d.model \in ResultGroups
                     /\ fschem[d.model] = get_docs(store, d.model)
                ELSE d.model \notin ResultGroups

\* C14 witness: the result holds a reference to no library entry, a reference
\* to a schematic model whose group is empty in the store, and a body fetched
\* for a reference inside a fetched body
C14_Witness ==
    /\ fpc = "done"
    /\ TopName \in ResultGroups
    /\ \E d \in References(TopName) : model_key(d.model) \notin DOMAIN Library
    /\ \E g \in ResultGroups : \E d \in References(g) :
          SchematicModel(d.model) /\ get_docs(store, d.model) = << >>
    /\ \E g \in ResultGroups \ {TopName} : \E d \in References(g) :
          d.model \in ResultGroups \ {TopName}

-----------------------------------------------------------------------------
(* Properties of the template selection *)

\* two names are equal ignoring case, on the names in use
SameIgnoringCase(a, b) ==
    \/ a = b
    \/ {a, b} \subseteq {"NgSpice", "ngspice", "NGSPICE"}
    \/ {a, b} \subseteq {"Xyce", "xyce", "XYCE"}

\* the entries of the template list whose name is the simulator's
Matching == {i \in 1..Len(tmpl) : SameIgnoringCase(tmpl[i].name, simname)}

\* the template the claim selects: the first matching entry, else the first
\* entry, else none (the empty tuple)
Expected ==
    IF tmpl = << >> THEN << >>
    ELSE IF Matching # {}
         THEN << tmpl[CHOOSE i \in Matching : \A j \in Matching : i <= j] >>
         ELSE << tmpl[1] >>

\* C15: for a primitive device whose model resolves, the selected template
\* is the first entry named like the simulator ignoring case, else the first
\* entry, else none; the device is emitted as an X element if and only if a
\* template is selected and sets use-x, and else with its primitive prefix
C15_TemplateSelection ==
    pc = "emitted" =>
          /\ select_template(tmpl, simname) = Expected
          /\ ~raised
          /\ Len(elements) = 1
          /\ elements[1].kind = "X" <=> (Expected # << >> /\ Expected[1].usex)
          /\ elements[1].kind # "X" => elements[1].kind = Prefix(gdoc.type)

\* C15 witness: a transistor is emitted as X because the second entry, named
\* like the simulator up to case, sets use-x while the first entry does not
C15_Witness ==
    /\ pc = "emitted"
    /\ gdoc.type = "nmos"
    /\ Len(tmpl) = 2
    /\ tmpl[1].name = "Xyce" /\ ~tmpl[1].usex
    /\ tmpl[2].name = "NGSPICE" /\ tmpl[2].usex
    /\ simname = "ngspice"
    /\ elements[1].kind = "X"

-----------------------------------------------------------------------------
(* Properties of add_spice_code and download_includes *)

\* the used models whose selected template code NyanCircuit hands to
\* add_spice_code: no body, not the top level, code not empty
ModelsWithCode ==
    {k \in used_models :
        /\ bare_id(k) # TopName
        /\ bare_id(k) \notin DOMAIN schem
        /\ SelectedCode(Library[k], Sim) # ""}

\* C16: add_spice_code never raises: when parsing, include resolution,
\* translation or copying fails, the code is appended to raw_spice and the
\* construction goes on with the remaining used models
C16_SpiceCodeNeverRaises ==
    /\ \A i \in 1..Len(spice_log) :
          spice_log[i].outcome \in SpiceFailures
          => \E j \in 1..Len(raw_spice) : raw_spice[j] = spice_log[i].code
    /\ spice_log # << >> => ~raised /\ cpc # "raised"
    /\ Constructed =>
          /\ \A k \in ModelsWithCode :
                \E i \in 1..Len(spice_log) : spice_log[i].code = SelectedCode(Library[k], Sim)
          /\ \A k \in used_models :
                bare_id(k) \in DOMAIN schem \ {TopName} => Declarations(bare_id(k)) # {}

\* C16 witness: the construction has returned after add_spice_code failed on
\* the first of two template codes: the second was still handled
C16_Witness ==
    /\ Constructed
    /\ Len(spice_log) = 2
    /\ spice_log[1].outcome \in SpiceFailures
    /\ spice_log[2].outcome = "ok"
    /\ raw_spice = << spice_log[1].code >>

\* C17: over one construction followed by download_includes every url is
\* downloaded at most once, and an include whose cache file exists when it is
\* resolved schedules no download
C17_DownloadOnce ==
    /\ \A i, j \in 1..Len(downloaded) : downloaded[i].url = downloaded[j].url => i = j
    /\ cpc = "models" => \A i \in 1..Len(pending) : pending[i].dest \notin cache

\* C18: a failing download or extraction of a pending entry never raises out
\* of download_includes and never prevents the attempt of a later entry, and
\* the pending list is empty when download_includes returns
C18_FailureSkipped ==
    /\ [](/\ downloaded # << >> => ~raised /\ cpc \in {"built", "downloaded"}
          /\ cpc = "built" =>
                /\ dli = Len(downloaded)
                /\ dli <= Len(pending)
                /\ \A i \in 1..dli : downloaded[i].url = pending[i].url
          /\ cpc = "downloaded" => pending = << >>)
    /\ [][cpc = "built" /\ cpc' = "downloaded"
            => Len(downloaded) = Len(pending) /\ pending' = << >>]_vars

\* C18 witness: download_includes has returned after the first of its
\* downloads failed and a later one was attempted
C18_Witness ==
    /\ cpc = "downloaded"
    /\ Len(downloaded) >= 2
    /\ downloaded[1].outcome # "ok"
    /\ downloaded[2].outcome = "ok"
    /\ pending = << >>

-----------------------------------------------------------------------------
(* Properties of the shared download cache *)

\* C19: the download cache is first-writer-wins: once a pass has written a
\* cache file or an extraction directory, no other pass writes that path
C19_FirstWriterWins ==
    \A i, j \in 1..Len(writes) :
        (i < j /\ writes[i].path = writes[j].path) => writes[i].pass = writes[j].pass

-----------------------------------------------------------------------------
(* Properties of the emitted hierarchy *)

\* the elements of an emitted group: the top-level circuit or a declared
\* sub-circuit
ElementsOf(g) ==
    IF g = TopName THEN elements
    ELSE subcircuits[CHOOSE i \in 1..Len(subcircuits) : subcircuits[i].name = g].elements

\* the positions in the elements of group g of the X elements emitted for the
\* hierarchical instances of the schematic model with bare id b
InstanceElements(g, b) ==
    {j \in 1..Len(ElementsOf(g)) :
        \E i \in Instances(g, b) :
            /\ schem[g][i].type \notin Primitive
            /\ ElementsOf(g)[j].name = schem[g][i].name
            /\ ElementsOf(g)[j].kind = "X"}

\* C21: the sub-circuit identifier an emitted hierarchical X instance refers
\* to is the identifier under which the sub-circuit of its model is declared,
\* whatever the display name and the bare id of the model
C21_ReferenceIsDeclaredId ==
    Constructed =>
        \A g \in EmittedGroups : \A b \in DOMAIN schem \ {TopName} :
            \A j \in InstanceElements(g, b) : \A i \in Declarations(b) :
                ElementsOf(g)[j].model = subcircuits[i].name

\* the net that netlist gives the terminal named port of the device at
\* position i of group g
TerminalNet(nets, id, port) == Get(Get(nets, id), port)

\* NyanCircuit.__init__ has returned and download_includes has not started;
\* download_includes changes neither the elements nor the sub-circuits
JustBuilt == cpc = "built" /\ dli = 0

\* the edges of model.ports one after the other: top, bottom, left, right
PerimeterOrder(ports) == ports.top \o ports.bottom \o ports.left \o ports.right

\* C22: the node list of the X element of a hierarchical instance is as long
\* as the external node list of the declaration of its model, its i-th node
\* is the net of the instance terminal named by the i-th declared node, and
\* the declared nodes follow the order top, bottom, left, right of model.ports
C22_NodeOrder ==
    JustBuilt =>
        /\ \A d \in 1..Len(subcircuits) :
              subcircuits[d].nodes =
                  PerimeterOrder(Library[model_key(subcircuits[d].name)].ports)
        /\ \A g \in EmittedGroups :
              LET nets  == netlist(schem[g], Library)
                  elems == ElementsOf(g)
              IN  \A b \in DOMAIN schem \ {TopName} : \A d \in Declarations(b) :
                      \A i \in Instances(g, b) :
                          schem[g][i].type \notin Primitive =>
                          \E j \in 1..Len(elems) :
                              /\ elems[j].name = schem[g][i].name
                              /\ elems[j].kind = "X"
                              /\ Len(elems[j].nodes) = Len(subcircuits[d].nodes)
                              /\ \A n \in 1..Len(elems[j].nodes) :
                                    elems[j].nodes[n] =
                                        TerminalNet(nets, schem[g][i].id,
                                                    subcircuits[d].nodes[n])

\* C22 witness: the circuit is built with an instance of buf, a model with a
\* port on every edge, emitted with four distinct nets, and buf is declared
C22_Witness ==
    /\ JustBuilt
    /\ Declarations("buf") # {}
    /\ \E g \in EmittedGroups : \E j \in InstanceElements(g, "buf") :
          /\ Len(ElementsOf(g)[j].nodes) = 4
          /\ Cardinality({ElementsOf(g)[j].nodes[n] : n \in 1..4}) = 4

-----------------------------------------------------------------------------
(* Termination and draining of netlist *)

\* the keys of an ordered dict
Keys(d) == {d[i][1] : i \in 1..Len(d)}

\* the coordinate buckets of the wire_index that port_index builds for the level
Buckets == Keys(port_index(docs, Models).wire)

\* a step of the loops of netlist puts no bucket back into wire_index
NoBucketReturns == pc \in {"outer", "inner"} => Keys(wire_index') \subseteq Keys(wire_index)

\* a step that takes a wire from the queue leaves no bucket at its ends
EndsDrained ==
    (pc = "inner" /\ net # << >> /\ Head(net).type = "wire")
        => WireEndsOf(Head(net)) \cap Keys(wire_index') = {}

\* the number of entities in the buckets of an ordered dict
RECURSIVE Entities(_)
Entities(d) == IF d = << >> THEN 0 ELSE Len(Head(d)[2]) + Entities(Tail(d))

\* the work the loops of netlist have left: the entities still indexed, the
\* entities queued, and the position in the loops
Remaining(index, q, at) ==
    4 * Entities(index) + 2 * Len(q)
        + (CASE at = "inner" -> 2 [] at = "outer" -> 1 [] OTHER -> 0)

\* every step of the loops of netlist leaves less work than it found
WorkDecreases ==
    pc \in {"outer", "inner"}
        => Remaining(wire_index', net', pc') < Remaining(wire_index, net, pc)

\* the loops of netlist can take their next step: the outer loop either pops a
\* bucket or ends, the inner loop either ends or takes a wire or a port
LoopCanStep ==
    /\ pc = "outer" => (wire_index # << >> \/ wire_index = << >>)
    /\ pc = "inner" => (net = << >> \/ Head(net).type \in {"wire", "port"})

\* C23: netlist terminates on every level: inside its loops a step is always
\* possible and every step leaves less work; when it has returned wire_index
\* is empty and every coordinate bucket was taken by the traversal of exactly
\* one net; a bucket that left wire_index never comes back, and the bucket at
\* an end of a traversed wire is out of wire_index right after the wire is
\* taken from the queue, so no later net visits it again
C23_TerminatesAndDrains ==
    /\ []LoopCanStep
    /\ [][WorkDecreases]_vars
    /\ [](Finished => /\ wire_index = << >>
                      /\ \A c \in Buckets : Cardinality(FloodsOf(c)) = 1)
    /\ [][NoBucketReturns]_vars
    /\ [][EndsDrained]_vars

\* C23 witness: netlist has returned after three nets, one of them traversed
\* over two coordinate buckets joined by a wire
C23_Witness ==
    /\ Finished
    /\ Len(floods) >= 3
    /\ \E i \in 1..Len(floods) : Cardinality(floods[i].locs) >= 2

-----------------------------------------------------------------------------
(* Properties of the declaration and reference templates *)

\* a declaration template with the corner substituted, on the templates and
\* corners in use
Substitute(templ, c) ==
    CASE templ = ".model tmod_{corner} D" /\ c = "tt" -> ".model tmod_tt D"
      [] templ = ".model tmod_{corner} D" /\ c = "ff" -> ".model tmod_ff D"
      [] OTHER -> templ

\* the texts added to the circuit besides its elements
AddedTexts == {parsed[i] : i \in 1..Len(parsed)} \cup {raw_spice[i] : i \in 1..Len(raw_spice)}

\* C24: when the template selected for the model of a device does not set
\* use-x and supplies a declaration and a reference template, the circuit
\* built for a corner holds the declaration template with that corner
\* substituted
C24_CornerDeclaration ==
    pc = "declared" =>
        LET sel == select_template(tmpl, simname)
        IN  (sel # << >> /\ ~sel[1].usex /\ sel[1].decltempl # "" /\ sel[1].reftempl # "")
                => Substitute(sel[1].decltempl, corner) \in AddedTexts

\* ---------------------------------------------------------------------
\* Termination of get_all_schem_docs
\* ---------------------------------------------------------------------

\* the document at the head of the queue names a model
HeadHasModel == fpc = "bfs" /\ queue # << >> /\ ~NoModel(Head(queue))

\* a step of the loop on a document whose model key is already in the
\* seen-set only takes the document off the queue
SeenKeySkipped ==
    (HeadHasModel /\ model_key(Head(queue).model) \in seen_models)
        => /\ queue' = Tail(queue)
           /\ seen_models' = seen_models
           /\ fschem' = fschem
           /\ fetched' = fetched

\* a step of the loop on a document whose model key is not in the seen-set
\* adds exactly that key
UnseenKeyAdded ==
    (HeadHasModel /\ model_key(Head(queue).model) \notin seen_models)
        => seen_models' = seen_models \cup {model_key(Head(queue).model)}

\* the seen-set changes only by the key of the document taken off the queue
SeenOnlyGrows ==
    seen_models' # seen_models
        => /\ HeadHasModel
           /\ model_key(Head(queue).model) \notin seen_models
           /\ seen_models' = seen_models \cup {model_key(Head(queue).model)}

\* C25: get_all_schem_docs terminates on every store, with sub-circuit
\* bodies that instantiate each other or the top-level schematic included:
\* the call eventually returns with an empty queue, and every model key
\* is added to the seen-set at most once
C25_FetchTerminates ==
    /\ <>(fpc = "done" /\ queue = << >>)
    /\ [][SeenKeySkipped]_vars
    /\ [][UnseenKeyAdded]_vars
    /\ [][SeenOnlyGrows]_vars

\* a fetch has returned on a store where the body of amp instantiates buf
\* and the body of buf instantiates amp, both bodies having been queued
C25_Witness ==
    /\ fpc = "done"
    /\ queue = << >>
    /\ {"amp", "buf"} \subseteq DOMAIN fschem
    /\ \E i \in DOMAIN fschem["amp"] : fschem["amp"][i].model = "buf"
    /\ \E i \in DOMAIN fschem["buf"] : fschem["buf"][i].model = "amp"
    /\ {"models:amp", "models:buf"} \subseteq seen_models

\* ---------------------------------------------------------------------
\* Entity types inside wire_index and the traversal queue
\* ---------------------------------------------------------------------

WireOrPort(doc) == doc.type \in {"wire", "port"}

\* C26: whatever document types the level contains, every entity that
\* port_index placed into wire_index, every entity waiting in the traversal
\* queue and every entity netlist has taken from it has type wire or port,
\* so the branch that raises ValueError on another type is never taken
C26_OnlyWiresAndPorts ==
    /\ \A i \in 1..Len(wire_index) :
           \A j \in 1..Len(wire_index[i][2]) : WireOrPort(wire_index[i][2][j])
    /\ \A j \in 1..Len(net) : WireOrPort(net[j])
    /\ \A j \in 1..Len(trav) : WireOrPort(trav[j])

\* a level with a device that is neither wire nor port is being traversed:
\* the dummy net of one of its terminals has been taken from the queue
\* while other entities are still indexed
C26_Witness ==
    /\ pc = "inner"
    /\ \E i \in 1..Len(docs) : ~WireOrPort(docs[i])
    /\ \E j \in 1..Len(trav) : trav[j].id = None
    /\ wire_index # << >>

\* ---------------------------------------------------------------------
\* Synthesized names of nets that carry a name
\* ---------------------------------------------------------------------

\* the connected component of a finished net holds a wire or a port whose
\* name is not null
HasNamedEntity(flood) == \E j \in 1..Len(flood.trav) : flood.trav[j].name # None

\* C27: a net whose connected component contains a wire with a non-null
\* name or a port with a non-null name is never given a synthesized net{n}
\* name, in whatever order its wires and ports are traversed and also when
\* the component contains a port whose name is null
C27_NamedNetNotSynthesized ==
    \A i \in 1..Len(floods) : HasNamedEntity(floods[i]) => ~floods[i].synth

\* ---------------------------------------------------------------------
\* getports on instances of library models
\* ---------------------------------------------------------------------

\* the model of the instance is in the library and lists no port
PortlessInstance ==
    /\ model_key(gdoc.model) \in DOMAIN HierModels
    /\ port_locations(HierModels[model_key(gdoc.model)].ports) = << >>

\* C28: getports returns a map and never raises for a hierarchical instance
\* whose model is present in the model library; for a model whose ports map
\* lists no port on any edge the returned map is empty
C28_GetportsNeverRaises ==
    (gdoc.type = "ckt" /\ model_key(gdoc.model) \in DOMAIN HierModels /\ pc # "start")
        => /\ ~raised
           /\ pc = "resolved"
           /\ PortlessInstance => gports = << >>

\* ---------------------------------------------------------------------
\* The two ways a template code enters the circuit
\* ---------------------------------------------------------------------

\* the call of add_spice_code in this step merged its code structurally
\* and left raw_spice alone
MergedOnly ==
    /\ parsed' = Append(parsed, spice_log'[Len(spice_log')].code)
    /\ raw_spice' = raw_spice

\* the call of add_spice_code in this step appended its code to raw_spice,
\* merged nothing of it and scheduled no download for it
RawOnly ==
    /\ raw_spice' = Append(raw_spice, spice_log'[Len(spice_log')].code)
    /\ parsed' = parsed
    /\ pending' = pending

OneWay == spice_log' # spice_log => MergedOnly \/ RawOnly

\* C29: each template code passed to add_spice_code ends up in the circuit
\* in exactly one way: merged structurally with raw_spice unchanged, or
\* appended to raw_spice with nothing of it merged and no download of it
\* pending; never both
C29_MergedOrRaw == [][OneWay]_vars

\* ---------------------------------------------------------------------
\* Archives that are cached but not extracted
\* ---------------------------------------------------------------------

\* the includes with a fragment that the emission pass has resolved: those
\* of every template code whose parsing did not raise
ResolvedArchives ==
    {inc \in UNION {{IncludesOf(spice_log[j].code)[i] :
                        i \in 1..Len(IncludesOf(spice_log[j].code))} :
                    j \in {l \in 1..Len(spice_log) : spice_log[l].outcome # "parse"}} :
        inc.scheme \in {"http", "https"} /\ inc.entry # ""}

\* the archive was in the cache when the pass resolved the include: the
\* file exists and the pass has not downloaded it
CachedBefore(inc) ==
    /\ CachedFile(inc.url) \in cache
    /\ \A j \in 1..Len(downloaded) : downloaded[j].url # inc.url

\* C30: for an include url with a fragment, an archive that is in the cache
\* while its extraction directory is missing is extracted by an emission
\* pass followed by download_includes, so that the resolved include path
\* exists afterwards
C30_ExtractionRepaired ==
    cpc = "downloaded" =>
        \A inc \in ResolvedArchives :
            CachedBefore(inc) => ExtractDir(CachedFile(inc.url)) \in cache

====
